---- MODULE Spec2Model ----
(***************************************************************************)
(* A state-machine model of the chaser-v2 lighting sequencer               *)
(* (src/src/core/sequencer.ts, the current class at lines 1-584).          *)
(*                                                                         *)
(* The Sequencer object is a record `s`; every method of the class is an   *)
(* operator from the object before the call to the object after it, and    *)
(* every action of the state machine is one complete call of a public      *)
(* method or one firing of a timer callback.  JavaScript is single         *)
(* threaded, so a call runs to completion before the next one starts.      *)
(*                                                                         *)
(* Numbers: channel values, clock readings and spm are integers; a ratio   *)
(* is an exact fraction [n, d] and Math.round is computed on fractions;    *)
(* positionMs and the length of a step are doubles, held to their last     *)
(* bit.  NaN and infinities are not represented.                           *)
(***************************************************************************)
EXTENDS Integers, Sequences, FiniteSets, TLC

VARIABLES
    state,            \* PlayheadState
    timer,            \* sequencer tick interval: None, or Some(period)
    mixTimer,         \* mix interval: None, or Some(period)
    frameIntervalMs,
    lastTickAtMs,     \* None (null) or Some(ms)
    listeners,        \* the subscribed listeners
    activeProgram,    \* None (null) or Some(program)
    layerAValues,     \* LayerValueMap
    mixTransition,    \* None (null) or Some(MixTransition)
    now,              \* performance.now(), in ms
    emitted,          \* history: the frames handed to the listeners by the last call
    begun,            \* history: beginModeTransition calls made by the last call
    lastWrite,        \* history: per layer-A key, the latest non-zero write still standing
    owed,             \* history: a static-mode layer-A edit whose final frame is still due
    calls,            \* history: the public calls made so far
    ticked,           \* history: the clamped elapsed ms the ticks have added since play()
    renderInput,      \* render packet builder: None, or Some(the arguments of the last call)
    packet,           \* render packet builder: None, or Some(the result of the last call)
    artDmxInput,      \* buildArtDmxPacket: None, or Some(the arguments of the last call)
    artDmxPacket,     \* buildArtDmxPacket: the bytes the last call returned
    cachedFrames,     \* ArtnetOutput: the entries of the Map, in insertion order
    isFlushing,
    flushRequested,
    flushLoops,       \* ArtnetOutput: the calls of flushLoop suspended at their await
    wire,             \* history: the datagrams handed to the socket by the last step
    passStart,        \* history: the cache when the current flush pass began
    passSent,         \* history: the frames the current flush pass has sent so far
    owedPass,         \* history: a flush was requested and no pass has begun since
    latest,           \* history: per cache key, the frame of the last push for it
    firstInserted,    \* history: the cache keys in the order of their first push
    sendError,        \* history: whether the last send callback reported an error
    pushes,           \* history: the calls of push made so far
    runtime,          \* MqttOutput: None, or Some(the RuntimeTargetState of its target)
    lightCommands,    \* history: the light commands received so far
    commanded,        \* history: None, or Some(the last command with a colour and a
                      \* brightness, and how far it has come)
    controlCalls,     \* history: the calls of the control API made by the last step
    queuedRef,        \* history: per fixture, the operations of the last light command
                      \* received since the last flush
    programs,         \* the programs of the program store, as controls.listPrograms()
                      \* returns them
    lastPublished     \* history: per topic, the payload of the last retained message
                      \* handed to the client

sequencerVars == << state, timer, mixTimer, frameIntervalMs, lastTickAtMs, listeners,
                    activeProgram, layerAValues, mixTransition, now,
                    emitted, begun, lastWrite, owed, calls, ticked >>

renderVars == << renderInput, packet >>

artDmxVars == << artDmxInput, artDmxPacket >>

artnetVars == << cachedFrames, isFlushing, flushRequested, flushLoops, wire,
                 passStart, passSent, owedPass, latest, firstInserted, sendError, pushes >>

mqttVars == << runtime, lightCommands, commanded, controlCalls, queuedRef, programs,
              lastPublished >>

outputVars == << renderVars, artDmxVars, artnetVars, mqttVars >>

vars == << sequencerVars, outputVars >>

-----------------------------------------------------------------------------
(* Bounds of the model *)

MaxCalls == 3             \* public calls made by a behaviour
MaxAdvances == 3          \* clock steps of Dt ms taken by a behaviour
MaxStepInput == 2         \* largest index given to setStep
MaxTicked == 20000        \* elapsed ms the ticks of a playback add up to
MaxPushes == 3            \* calls of push made by a behaviour
MaxLightCommands == 3     \* light commands received by a behaviour

-----------------------------------------------------------------------------
(* Generic helpers *)

None == << >>
Some(x) == << x >>
IsNone(o) == Len(o) = 0
IsSome(o) == Len(o) > 0
Get(o) == o[1]

Max(a, b) == IF a >= b THEN a ELSE b
Min(a, b) == IF a <= b THEN a ELSE b

\* Math.round of the fraction num/den (den > 0): floor(x + 1/2)
Round(num, den) == (2 * num + den) \div (2 * den)

Frac(num, den) == [n |-> num, d |-> den]

\* positionMs and the length of a step are doubles. Every one this model
\* reaches is a whole multiple of 2^-40 below 2^13, where the doubles are 2^-40
\* apart: the sum and the difference of two of them are exact and a quotient
\* is rounded to the nearest multiple, ties to even. Such a number is held as
\* ms + hi / 2^20 + lo / 2^40 with hi and lo in 0 .. 2^20 - 1.
Limb == 2^20

Double(ms, hi, lo) ==
    LET carryLo == lo \div Limb
        carryHi == (hi + carryLo) \div Limb
    IN [ms |-> ms + carryHi, hi |-> (hi + carryLo) % Limb, lo |-> lo % Limb]

\* num / den of two whole numbers, 0 <= num and 0 < den <= 500
DoubleQuotient(num, den) ==
    LET r0 == num % den
        r1 == (r0 * Limb) % den
        lo == (r1 * Limb) \div den
        r2 == (r1 * Limb) % den
        up == IF 2 * r2 > den \/ (2 * r2 = den /\ lo % 2 = 1) THEN 1 ELSE 0
    IN Double(num \div den, (r0 * Limb) \div den, lo + up)

\* a * k for a whole number k
DoubleTimes(a, k) == Double(a.ms * k, a.hi * k, a.lo * k)

DoubleMinus(a, b) == Double(a.ms - b.ms, a.hi - b.hi, a.lo - b.lo)

\* a / 2 for a double whose last bit is 0: halving moves the exponent only
DoubleHalf(a) ==
    Double(a.ms \div 2, (a.hi + (a.ms % 2) * Limb) \div 2,
           (a.lo + ((a.hi + (a.ms % 2) * Limb) % 2) * Limb) \div 2)

DoubleLess(a, b) ==
    \/ a.ms < b.ms
    \/ a.ms = b.ms /\ a.hi < b.hi
    \/ a.ms = b.ms /\ a.hi = b.hi /\ a.lo < b.lo

-----------------------------------------------------------------------------
(* Module-level functions of sequencer.ts *)

\* const name = value, followed by the statements that use it
Bind(value, Rest(_)) == Rest(value)

MODE_SWITCH_FADE_MS == 500

\* the key is the text fixtureId ":" featureId, kept as its three tokens
frameKey(fixtureId, featureId) == << fixtureId, ":", featureId >>

clamp01(value) ==
    IF value.n < 0 THEN Frac(0, 1)
    ELSE IF value.n > value.d THEN Frac(1, 1)
    ELSE value

\* FeatureValue = number | number[]
asArray(value) == IF value.isArray THEN value.v ELSE << value.v >>

clampChannel(value) ==
    IF value.n < 0 THEN 0
    ELSE IF value.n > 255 * value.d THEN 255
    ELSE Round(value.n, value.d)

isZeroValue(values) == \A i \in 1..Len(values) : values[i] <= 0

\* left is layerAValues[key], None when the key is absent (undefined)
valuesEqual(left, right) ==
    IF IsNone(left) THEN FALSE
    ELSE IF Len(Get(left)) # Len(right) THEN FALSE
    ELSE \A i \in 1..Len(right) : Get(left)[i] = right[i]

cloneLayerValues(values) == [key \in DOMAIN values |-> values[key]]

\* from[i] ?? from[0] ?? 0, for the 1-based index i
ElementOrFirst(arr, i) ==
    IF i <= Len(arr) THEN arr[i] ELSE IF Len(arr) >= 1 THEN arr[1] ELSE 0

\* from[i] ?? 0
ElementOrZero(arr, i) == IF i <= Len(arr) THEN arr[i] ELSE 0

EntryOr0(values, key) == IF key \in DOMAIN values THEN values[key] ELSE << 0 >>

interpolateLayerValues(fromValues, toValues, ratio) ==
    LET keys == DOMAIN fromValues \cup DOMAIN toValues
        out(key) ==
            LET from == EntryOr0(fromValues, key)
                to == EntryOr0(toValues, key)
            IN [i \in 1..Max(Len(from), Len(to)) |->
                   LET fromValue == ElementOrFirst(from, i)
                       toValue == ElementOrFirst(to, i)
                   IN clampChannel(Frac(fromValue * ratio.d + (toValue - fromValue) * ratio.n,
                                        ratio.d))]
    IN [key \in {k \in keys : ~isZeroValue(out(k))} |-> out(key)]

-----------------------------------------------------------------------------
(* The Sequencer object *)

self ==
    [ state |-> state, timer |-> timer, mixTimer |-> mixTimer,
      frameIntervalMs |-> frameIntervalMs, lastTickAtMs |-> lastTickAtMs,
      listeners |-> listeners, activeProgram |-> activeProgram,
      layerAValues |-> layerAValues, mixTransition |-> mixTransition,
      now |-> now, emitted |-> << >>, begun |-> 0, ticked |-> ticked ]

stepCount(s) == IF IsNone(s.activeProgram) THEN 0 ELSE Len(Get(s.activeProgram).steps)

getVisibleMixMode(s) ==
    IF s.state.isPlaying /\ IsSome(s.activeProgram) /\ stepCount(s) > 0
    THEN "sequencer" ELSE "static"

stopMixTimer(s) ==
    IF IsNone(s.mixTimer) THEN s ELSE [s EXCEPT !.mixTimer = None]

startTimer(s) ==
    IF IsSome(s.timer) THEN s
    ELSE stopMixTimer([s EXCEPT !.lastTickAtMs = Some(s.now),
                                !.timer = Some(s.frameIntervalMs)])

\* variant: the sequencer interval is never cleared
stopTimer_keepsInterval(s) == s

stopTimer(s) ==
    IF IsNone(s.timer) THEN s
    ELSE [s EXCEPT !.timer = None, !.lastTickAtMs = None]

startMixTimer(s) ==
    IF s.state.isPlaying THEN s
    ELSE IF IsNone(s.mixTransition) THEN s
    ELSE IF IsSome(s.mixTimer) THEN s
    ELSE [s EXCEPT !.mixTimer = Some(s.frameIntervalMs)]

\* the last frame of `frames` with the key wins (Map.set in list order)
FramesToMap(frames) ==
    LET keyOf(i) == frameKey(frames[i].fixtureId, frames[i].featureId)
        keys == {keyOf(i) : i \in 1..Len(frames)}
        last(key) == CHOOSE i \in 1..Len(frames) :
                        /\ keyOf(i) = key
                        /\ \A j \in 1..Len(frames) : keyOf(j) = key => j <= i
    IN [key \in keys |-> asArray(frames[last(key)].value)]

\* variant: the fade is taken as finished at once
fadeRatio_alwaysOne(s, currentStep) == Frac(1, 1)

\* fadeRatio of buildSequencerValues; wherever a step of this model fades in,
\* positionMs is a whole number of milliseconds
fadeRatio(s, currentStep) ==
    IF s.state.isPlaying
    THEN IF currentStep.fadeMs > 0
         THEN clamp01(Frac(s.state.positionMs, currentStep.fadeMs))
         ELSE Frac(1, 1)
    ELSE Frac(1, 1)

\* previousIndex of buildSequencerValues, 0-based like stepIndex
previousIndex(s) ==
    LET atProgramStartBoundary ==
            /\ s.state.stepIndex = 0
            /\ s.state.positionMs <= 0
            /\ s.state.positionMsLow = <<0, 0>>
        useLoopedPrevious == s.state.loop /\ ~(s.state.isPlaying /\ atProgramStartBoundary)
    IN IF s.state.stepIndex > 0 THEN s.state.stepIndex - 1
       ELSE IF useLoopedPrevious THEN stepCount(s) - 1
       ELSE 0

buildSequencerValues(s) ==
    IF IsNone(s.activeProgram) \/ stepCount(s) = 0 THEN << >>
    ELSE
      Bind(Get(s.activeProgram).steps, LAMBDA steps :
      Bind(steps[s.state.stepIndex + 1], LAMBDA currentStep :
      Bind(steps[previousIndex(s) + 1], LAMBDA previousStep :
      Bind(FramesToMap(currentStep.frames), LAMBDA currentMap :
      Bind(FramesToMap(previousStep.frames), LAMBDA prevMap :
      Bind(fadeRatio(s, currentStep), LAMBDA ratio :
        LET out(key) ==
                Bind(EntryOr0(prevMap, key), LAMBDA from :
                Bind(EntryOr0(currentMap, key), LAMBDA to :
                  [i \in 1..Max(Len(from), Len(to)) |->
                      IF s.state.isBlackout THEN 0
                      ELSE Round(ElementOrZero(from, i) * ratio.d
                                   + (ElementOrZero(to, i) - ElementOrZero(from, i)) * ratio.n,
                                 ratio.d)]))
        IN [key \in {k \in DOMAIN currentMap \cup DOMAIN prevMap : ~isZeroValue(out(k))} |->
               out(key)]))))))

\* returns the object after the call and the values
\* variant: without a cross-fade the visible values are those of layer A
buildVisibleValues_layerA(s, targetMode, targetValues) ==
    IF IsNone(s.mixTransition) \/ Get(s.mixTransition).toMode # targetMode
    THEN [s |-> s, values |-> cloneLayerValues(s.layerAValues)]
    ELSE
      Bind(Get(s.mixTransition), LAMBDA transition :
      Bind(clamp01(Frac(s.now - transition.startedAtMs, MODE_SWITCH_FADE_MS)), LAMBDA progress :
      Bind(interpolateLayerValues(transition.fromValues, targetValues, progress), LAMBDA values :
        IF progress.n >= progress.d
        THEN [s |-> stopMixTimer([s EXCEPT !.mixTransition = None]), values |-> values]
        ELSE [s |-> s, values |-> values])))

buildVisibleValues(s, targetMode, targetValues) ==
    IF IsNone(s.mixTransition) \/ Get(s.mixTransition).toMode # targetMode
    THEN [s |-> s, values |-> cloneLayerValues(targetValues)]
    ELSE
      Bind(Get(s.mixTransition), LAMBDA transition :
      Bind(clamp01(Frac(s.now - transition.startedAtMs, MODE_SWITCH_FADE_MS)), LAMBDA progress :
      Bind(interpolateLayerValues(transition.fromValues, targetValues, progress), LAMBDA values :
        IF progress.n >= progress.d
        THEN [s |-> stopMixTimer([s EXCEPT !.mixTransition = None]), values |-> values]
        ELSE [s |-> s, values |-> values])))

\* returns the object after the call and the frame (the timestamp is left out)
buildFrame(s) ==
    Bind(cloneLayerValues(s.layerAValues), LAMBDA layerA :
    Bind(buildSequencerValues(s), LAMBDA layerB :
    Bind(getVisibleMixMode(s), LAMBDA targetMode :
    Bind(IF targetMode = "sequencer" THEN layerB ELSE layerA, LAMBDA targetValues :
    Bind(buildVisibleValues(s, targetMode, targetValues), LAMBDA visible :
      [s |-> visible.s,
       frame |-> [values |-> visible.values,
                  layerAValues |-> layerA,
                  layerBValues |-> layerB,
                  state |-> s.state]])))))

emitFrame(s) ==
    Bind(buildFrame(s), LAMBDA built :
      [built.s EXCEPT !.emitted = Append(@, [frame |-> built.frame, to |-> built.s.listeners])])

captureVisibleValues(s) ==
    Bind(buildFrame(s), LAMBDA built :
      [s |-> built.s, values |-> cloneLayerValues(built.frame.values)])

beginModeTransition(s, toMode, fromValues) ==
    LET s1 == [s EXCEPT !.mixTransition = Some([startedAtMs |-> s.now,
                                                fromValues |-> cloneLayerValues(fromValues),
                                                toMode |-> toMode]),
                        !.begun = @ + 1]
    IN IF s1.state.isPlaying THEN stopMixTimer(s1) ELSE startMixTimer(s1)

\* variant: every appended step gets the default durationMs and fadeMs
ensureProgramStep_defaults(s, stepIndex) ==
    IF IsNone(s.activeProgram) THEN s
    ELSE
      LET program == Get(s.activeProgram)
          missing == Max(0, stepIndex + 1 - Len(program.steps))
          extend[n \in 0..missing] ==
              IF n = 0 THEN program.steps
              ELSE Append(extend[n - 1],
                          [id |-> Len(extend[n - 1]) + 1, durationMs |-> 500,
                           fadeMs |-> 300, frames |-> << >>])
      IN [s EXCEPT !.activeProgram = Some([program EXCEPT !.steps = extend[missing]])]

ensureProgramStep(s, stepIndex) ==
    IF IsNone(s.activeProgram) THEN s
    ELSE
      LET program == Get(s.activeProgram)
          missing == Max(0, stepIndex + 1 - Len(program.steps))
          extend[n \in 0..missing] ==
              \* the steps after n more pushes
              IF n = 0 THEN program.steps
              ELSE LET steps == extend[n - 1]
                       index == Len(steps)
                   IN Append(steps,
                             [id |-> index + 1,
                              durationMs |-> IF index > 0 THEN steps[index].durationMs ELSE 500,
                              fadeMs |-> IF index > 0 THEN steps[index].fadeMs ELSE 300,
                              frames |-> << >>])
      IN [s EXCEPT !.activeProgram = Some([program EXCEPT !.steps = extend[missing]])]

startsWith(key, prefix) ==
    Len(key) >= Len(prefix) /\ SubSeq(key, 1, Len(prefix)) = prefix

\* the three private layer-A writers return the object and the `changed` bit
clearLayerAKey(s, key) ==
    IF key \notin DOMAIN s.layerAValues THEN [s |-> s, changed |-> FALSE]
    ELSE [s |-> [s EXCEPT !.layerAValues = [k \in DOMAIN @ \ {key} |-> @[k]]],
          changed |-> TRUE]

setLayerAKey(s, key, value) ==
    LET arr == asArray(value)
        normalized == [i \in 1..Len(arr) |-> clampChannel(Frac(arr[i], 1))]
        stored == IF key \in DOMAIN s.layerAValues THEN Some(s.layerAValues[key]) ELSE None
    IN IF isZeroValue(normalized) THEN clearLayerAKey(s, key)
       ELSE IF valuesEqual(stored, normalized) THEN [s |-> s, changed |-> FALSE]
       ELSE [s |-> [s EXCEPT !.layerAValues =
                        [k \in DOMAIN @ \cup {key} |-> IF k = key THEN normalized ELSE @[k]]],
             changed |-> TRUE]

\* variant: every key is deleted, whatever its fixture
clearLayerAFixtureKeys_everyKey(s, fixtureId) ==
    [s |-> [s EXCEPT !.layerAValues = << >>], changed |-> DOMAIN s.layerAValues # {}]

clearLayerAFixtureKeys(s, fixtureId) ==
    LET prefix == << fixtureId, ":" >>
        hit == {key \in DOMAIN s.layerAValues : startsWith(key, prefix)}
    IN [s |-> [s EXCEPT !.layerAValues = [k \in DOMAIN @ \ hit |-> @[k]]],
        changed |-> hit # {}]

-----------------------------------------------------------------------------
(* Public methods *)

\* the number NaN, held as an integer that no other number of the model is
NaN == -1000000

\* Math.max(1, Math.min(500, Math.round(spm))) of an integer or of NaN, which
\* Math.round, Math.min and Math.max all return for it
clampSpmValue(spm) == IF spm = NaN THEN NaN ELSE Max(1, Min(500, spm))

\* variant: suppressEmit is not honoured
setProgram_alwaysEmits(s, program, options) ==
    emitFrame([s EXCEPT !.activeProgram = Some(program),
                        !.state.programId = Some(program.id),
                        !.state.spm = Max(1, Min(500, program.spm)),
                        !.state.loop = program.loop,
                        !.state.stepIndex = IF options.preservePlayhead
                                            THEN Min(@, Max(0, Len(program.steps) - 1)) ELSE 0,
                        !.state.positionMs = IF options.preservePlayhead THEN @ ELSE 0,
                        !.state.positionMsLow = IF options.preservePlayhead THEN @ ELSE <<0, 0>>])

\* variant: preservePlayhead keeps the step index as it is
setProgram_keepsIndex(s, program, options) ==
    LET s1 == [s EXCEPT !.activeProgram = Some(program),
                        !.state.programId = Some(program.id),
                        !.state.spm = clampSpmValue(program.spm),
                        !.state.loop = program.loop]
        s2 == IF options.preservePlayhead
              THEN s1
              ELSE [s1 EXCEPT !.state.stepIndex = 0, !.state.positionMs = 0, !.state.positionMsLow = <<0, 0>>]
    IN IF ~options.suppressEmit THEN emitFrame(s2) ELSE s2

setProgram(s, program, options) ==
    LET s1 == [s EXCEPT !.activeProgram = Some(program),
                        !.state.programId = Some(program.id),
                        !.state.spm = clampSpmValue(program.spm),
                        !.state.loop = program.loop]
        s2 == IF options.preservePlayhead
              THEN LET maxStepIndex == Max(0, Len(program.steps) - 1)
                   IN [s1 EXCEPT !.state.stepIndex = Min(@, maxStepIndex)]
              ELSE [s1 EXCEPT !.state.stepIndex = 0, !.state.positionMs = 0, !.state.positionMsLow = <<0, 0>>]
    IN IF ~options.suppressEmit THEN emitFrame(s2) ELSE s2

getState(s) == [s |-> s, result |-> s.state]

getFrame(s) == buildFrame(s)

\* play without the rewind of the playhead
play_keepsPlayhead(s) ==
    IF IsNone(s.activeProgram) THEN s
    ELSE IF s.state.isPlaying THEN s
    ELSE
      Bind(captureVisibleValues(s), LAMBDA captured :
      Bind([captured.s EXCEPT !.state.isPlaying = TRUE, !.ticked = 0], LAMBDA s1 :
        startTimer(emitFrame(beginModeTransition(s1, "sequencer", captured.values)))))

play(s) ==
    IF IsNone(s.activeProgram) THEN s
    ELSE IF s.state.isPlaying THEN s
    ELSE
      Bind(captureVisibleValues(s), LAMBDA captured :
      Bind([captured.s EXCEPT !.state.stepIndex = 0,
                              !.state.positionMs = 0, !.state.positionMsLow = <<0, 0>>,
                              !.state.isPlaying = TRUE,
                              !.ticked = 0], LAMBDA s1 :
        startTimer(emitFrame(beginModeTransition(s1, "sequencer", captured.values)))))

\* variant: resume starts over at the first step
resume_rewinds(s) ==
    IF IsNone(s.activeProgram) THEN s
    ELSE IF s.state.isPlaying THEN s
    ELSE
      Bind(captureVisibleValues(s), LAMBDA captured :
      Bind([captured.s EXCEPT !.state.stepIndex = 0,
                              !.state.positionMs = 0, !.state.positionMsLow = <<0, 0>>,
                              !.state.isPlaying = TRUE], LAMBDA s1 :
        startTimer(emitFrame(beginModeTransition(s1, "sequencer", captured.values)))))

resume(s) ==
    IF IsNone(s.activeProgram) THEN s
    ELSE IF s.state.isPlaying THEN s
    ELSE
      Bind(captureVisibleValues(s), LAMBDA captured :
      Bind([captured.s EXCEPT !.state.isPlaying = TRUE], LAMBDA s1 :
        startTimer(emitFrame(beginModeTransition(s1, "sequencer", captured.values)))))

\* variant: pause leaves the tick timer running
pause_timerKept(s) ==
    Bind(captureVisibleValues(s), LAMBDA captured :
      emitFrame(beginModeTransition([captured.s EXCEPT !.state.isPlaying = FALSE],
                                    "static", captured.values)))

pause(s) ==
    Bind(captureVisibleValues(s), LAMBDA captured :
    Bind(stopTimer([captured.s EXCEPT !.state.isPlaying = FALSE]), LAMBDA s1 :
      emitFrame(beginModeTransition(s1, "static", captured.values))))

\* variant: the index wraps to the first step whatever loop says
nextStep_wraps(s) ==
    IF IsNone(s.activeProgram) \/ stepCount(s) = 0 THEN s
    ELSE emitFrame([s EXCEPT !.state.stepIndex = (@ + 1) % stepCount(s),
                             !.state.positionMs = 0, !.state.positionMsLow = <<0, 0>>])

nextStep(s) ==
    IF IsNone(s.activeProgram) \/ stepCount(s) = 0 THEN s
    ELSE
      LET s1 == IF ~s.state.loop /\ s.state.stepIndex >= stepCount(s) - 1
                THEN [s EXCEPT !.state.stepIndex = stepCount(s) - 1]
                ELSE [s EXCEPT !.state.stepIndex = (@ + 1) % stepCount(s)]
      IN emitFrame([s1 EXCEPT !.state.positionMs = 0, !.state.positionMsLow = <<0, 0>>])

previousStep(s) ==
    IF IsNone(s.activeProgram) \/ stepCount(s) = 0 THEN s
    ELSE
      LET s1 == IF ~s.state.loop /\ s.state.stepIndex <= 0
                THEN [s EXCEPT !.state.stepIndex = 0]
                ELSE [s EXCEPT !.state.stepIndex = (@ - 1 + stepCount(s)) % stepCount(s)]
      IN emitFrame([s1 EXCEPT !.state.positionMs = 0, !.state.positionMsLow = <<0, 0>>])

\* variant: the index is clamped to the last step and nothing is appended
setStep_clampToLast(s, stepIndex) ==
    IF IsNone(s.activeProgram) THEN s
    ELSE
      LET clamped == Min(Max(0, stepIndex), Max(0, stepCount(s) - 1))
      IN emitFrame([s EXCEPT !.state.stepIndex = clamped, !.state.positionMs = 0, !.state.positionMsLow = <<0, 0>>])

setStep(s, stepIndex) ==
    IF IsNone(s.activeProgram) THEN s
    ELSE
      LET clamped == Max(0, stepIndex)
          s1 == ensureProgramStep(s, clamped)
      IN emitFrame([s1 EXCEPT !.state.stepIndex = clamped, !.state.positionMs = 0, !.state.positionMsLow = <<0, 0>>])

setSpm(s, spm) == emitFrame([s EXCEPT !.state.spm = clampSpmValue(spm)])

setLoop(s, enabled) == emitFrame([s EXCEPT !.state.loop = enabled])

setFrameRate(s, fps) ==
    LET clampedFps == Max(1, Min(120, fps))
        s1 == [s EXCEPT !.frameIntervalMs = Max(1, Round(1000, clampedFps))]
    IN IF s1.state.isPlaying THEN startTimer(stopTimer(s1))
       ELSE IF IsSome(s1.mixTransition) THEN startMixTimer(stopMixTimer(s1))
       ELSE s1

\* variant: the blackout flag is stored and no frame is emitted
setBlackout_silent(s, enabled) == [s EXCEPT !.state.isBlackout = enabled]

setBlackout(s, enabled) == emitFrame([s EXCEPT !.state.isBlackout = enabled])

\* fromValues of the layer-A methods: the captured values, or None (null)
CaptureIfStatic(s) ==
    IF getVisibleMixMode(s) = "static"
    THEN Bind(captureVisibleValues(s), LAMBDA captured :
           [s |-> captured.s, fromValues |-> Some(captured.values)])
    ELSE [s |-> s, fromValues |-> None]

\* the common tail of the layer-A methods
FinishLayerAEdit(written, fromValues) ==
    IF ~written.changed THEN written.s
    ELSE emitFrame(IF IsSome(fromValues)
                   THEN beginModeTransition(written.s, "static", Get(fromValues))
                   ELSE written.s)

\* variant: the edit starts a cross-fade to the static mode in either mode
setLayerAValue_alwaysFades(s, fixtureId, featureId, value) ==
    Bind(captureVisibleValues(s), LAMBDA captured :
      FinishLayerAEdit(setLayerAKey(captured.s, frameKey(fixtureId, featureId), value),
                       Some(captured.values)))

setLayerAValue(s, fixtureId, featureId, value) ==
    Bind(CaptureIfStatic(s), LAMBDA before :
      FinishLayerAEdit(setLayerAKey(before.s, frameKey(fixtureId, featureId), value),
                       before.fromValues))

clearLayerAFeature(s, fixtureId, featureId) ==
    Bind(CaptureIfStatic(s), LAMBDA before :
      FinishLayerAEdit(clearLayerAKey(before.s, frameKey(fixtureId, featureId)),
                       before.fromValues))

clearLayerAFixture(s, fixtureId) ==
    Bind(CaptureIfStatic(s), LAMBDA before :
      FinishLayerAEdit(clearLayerAFixtureKeys(before.s, fixtureId), before.fromValues))

\* one iteration of the batch loop
applyOperation(s, operation) ==
    CASE operation.kind = "set" ->
           setLayerAKey(s, frameKey(operation.fixtureId, operation.featureId), operation.value)
      [] operation.kind = "clearFeature" ->
           clearLayerAKey(s, frameKey(operation.fixtureId, operation.featureId))
      [] operation.kind = "clearFixture" ->
           clearLayerAFixtureKeys(s, operation.fixtureId)

\* variant: the batch calls the single-operation method for each operation
applyLayerABatch_perOperation(s, operations) ==
    LET single(o, operation) ==
            CASE operation.kind = "set" ->
                   setLayerAValue(o, operation.fixtureId, operation.featureId, operation.value)
              [] operation.kind = "clearFeature" ->
                   clearLayerAFeature(o, operation.fixtureId, operation.featureId)
              [] operation.kind = "clearFixture" ->
                   clearLayerAFixture(o, operation.fixtureId)
        loop[n \in 0..Len(operations)] ==
            IF n = 0 THEN s ELSE single(loop[n - 1], operations[n])
    IN loop[Len(operations)]

applyLayerABatch(s, operations) ==
    IF Len(operations) = 0 THEN s
    ELSE
      Bind(CaptureIfStatic(s), LAMBDA before :
        LET loop[n \in 0..Len(operations)] ==
                \* the object and `changed` after the first n operations
                IF n = 0 THEN [s |-> before.s, changed |-> FALSE]
                ELSE Bind(loop[n - 1], LAMBDA sofar :
                     Bind(applyOperation(sofar.s, operations[n]), LAMBDA done :
                       [s |-> done.s, changed |-> done.changed \/ sofar.changed]))
        IN FinishLayerAEdit(loop[Len(operations)], before.fromValues))

applyStateSnapshot(s, snapshot) ==
    IF IsNone(s.activeProgram) THEN s
    ELSE
      Bind(getVisibleMixMode(s), LAMBDA previousMode :
      Bind(captureVisibleValues(s), LAMBDA captured :
      Bind(Max(0, stepCount(captured.s) - 1), LAMBDA maxStepIndex :
      Bind(Max(0, Min(maxStepIndex, snapshot.stepIndex)), LAMBDA stepIndex :
      Bind(ensureProgramStep(captured.s, stepIndex), LAMBDA s1 :
      Bind([s1 EXCEPT !.state.stepIndex = stepIndex,
                      !.state.positionMs = Max(0, snapshot.positionMs),
                      !.state.positionMsLow = IF snapshot.positionMs < 0 THEN <<0, 0>>
                                              ELSE snapshot.positionMsLow,
                      !.state.spm = clampSpmValue(snapshot.spm),
                      !.state.loop = snapshot.loop,
                      !.state.isBlackout = snapshot.isBlackout,
                      !.state.isPlaying = snapshot.isPlaying], LAMBDA s2 :
      Bind(IF s2.state.isPlaying THEN startTimer(s2) ELSE stopTimer(s2), LAMBDA s3 :
      Bind(getVisibleMixMode(s3), LAMBDA nextMode :
        emitFrame(IF nextMode # previousMode
                  THEN beginModeTransition(s3, nextMode, captured.values)
                  ELSE IF ~s3.state.isPlaying THEN stopMixTimer(s3) ELSE s3)))))))))

subscribe(s, listener) == [s EXCEPT !.listeners = @ \cup {listener}]

\* the function subscribe returns
unsubscribe(s, listener) == [s EXCEPT !.listeners = @ \ {listener}]

-----------------------------------------------------------------------------
(* Timer callbacks *)

\* the double positionMs, whose bits below the millisecond are positionMsLow
positionMs(s) ==
    [ms |-> s.state.positionMs, hi |-> s.state.positionMsLow[1],
     lo |-> s.state.positionMsLow[2]]

\* (60000 / spm) * (max(1, durationMs) / 500); every step of this model lasts a
\* whole multiple of 500 ms, which makes stepScale a whole number, or 250 ms,
\* which makes it 0.5 (at a tempo that divides 60000)
targetStepDurationMs(s, step) ==
    IF Max(1, step.durationMs) = 250
    THEN DoubleHalf(DoubleQuotient(60000, s.state.spm))
    ELSE DoubleTimes(DoubleQuotient(60000, s.state.spm), Max(1, step.durationMs) \div 500)

\* the while loop of tick
RECURSIVE catchUp(_)
catchUp(s) ==
    IF ~s.state.isPlaying THEN s
    ELSE
      Bind(Get(s.activeProgram).steps, LAMBDA steps :
      Bind(targetStepDurationMs(s, steps[s.state.stepIndex + 1]), LAMBDA target :
        IF DoubleLess(positionMs(s), target) THEN s
        ELSE
          Bind(DoubleMinus(positionMs(s), target), LAMBDA rest :
          Bind([s EXCEPT !.state.positionMs = rest.ms,
                         !.state.positionMsLow = <<rest.hi, rest.lo>>], LAMBDA s1 :
            IF s1.state.stepIndex >= Len(steps) - 1
            THEN IF s1.state.loop
                 THEN catchUp([s1 EXCEPT !.state.stepIndex = 0])
                 ELSE Bind([s1 EXCEPT !.state.stepIndex = Len(steps) - 1,
                                      !.state.positionMs = 0,
                                      !.state.positionMsLow = <<0, 0>>,
                                      !.state.isPlaying = FALSE], LAMBDA s2 :
                      Bind(buildSequencerValues(s2), LAMBDA fromValues :
                        beginModeTransition(stopTimer(s2), "static", fromValues)))
            ELSE catchUp([s1 EXCEPT !.state.stepIndex = @ + 1])))))

\* the number of times the while loop of tick moves the playhead on, from
\* the given position in the given step, before it breaks or stops the
\* playback
RECURSIVE passesFrom(_, _, _)
passesFrom(s, position, stepIndex) ==
    IF ~DoubleLess(position,
                   targetStepDurationMs(s, Get(s.activeProgram).steps[stepIndex + 1]))
    THEN IF stepIndex >= stepCount(s) - 1
         THEN IF s.state.loop
              THEN 1 + passesFrom(s, DoubleMinus(position,
                          targetStepDurationMs(s, Get(s.activeProgram).steps[stepIndex + 1])), 0)
              ELSE 1
         ELSE 1 + passesFrom(s, DoubleMinus(position,
                     targetStepDurationMs(s, Get(s.activeProgram).steps[stepIndex + 1])),
                             stepIndex + 1)
    ELSE 0

catchUpPasses(s) ==
    IF ~s.state.isPlaying THEN 0 ELSE passesFrom(s, positionMs(s), s.state.stepIndex)

\* a tick that adds the elapsed time and leaves the while loop out
tick_noCatchUp(s) ==
    IF IsNone(s.activeProgram) \/ ~s.state.isPlaying THEN s
    ELSE
      Bind(ensureProgramStep(s, s.state.stepIndex), LAMBDA s1 :
        IF stepCount(s1) = 0 THEN s1
        ELSE
          Bind(IF IsNone(s1.lastTickAtMs) THEN s1.frameIntervalMs
               ELSE s1.now - Get(s1.lastTickAtMs), LAMBDA elapsedMsRaw :
          Bind(Max(0, Min(1000, elapsedMsRaw)), LAMBDA elapsedMs :
            emitFrame([s1 EXCEPT !.lastTickAtMs = Some(s1.now),
                                 !.state.positionMs = @ + elapsedMs,
                                 !.ticked = @ + elapsedMs]))))

\* a tick that wraps at the end of the last step whatever loop says
tick_alwaysLoops(s) ==
    IF IsNone(s.activeProgram) \/ ~s.state.isPlaying THEN s
    ELSE
      Bind(ensureProgramStep(s, s.state.stepIndex), LAMBDA s1 :
        IF stepCount(s1) = 0 THEN s1
        ELSE
          Bind(IF IsNone(s1.lastTickAtMs) THEN s1.frameIntervalMs
               ELSE s1.now - Get(s1.lastTickAtMs), LAMBDA elapsedMsRaw :
          Bind(Max(0, Min(1000, elapsedMsRaw)), LAMBDA elapsedMs :
          Bind(catchUp([s1 EXCEPT !.lastTickAtMs = Some(s1.now),
                                  !.state.positionMs = @ + elapsedMs,
                                  !.state.loop = TRUE,
                                  !.ticked = @ + elapsedMs]), LAMBDA s2 :
            emitFrame([s2 EXCEPT !.state.loop = s.state.loop])))))

tick(s) ==
    IF IsNone(s.activeProgram) \/ ~s.state.isPlaying THEN s
    ELSE
      Bind(ensureProgramStep(s, s.state.stepIndex), LAMBDA s1 :
        IF stepCount(s1) = 0 THEN s1
        ELSE
          Bind(IF IsNone(s1.lastTickAtMs) THEN s1.frameIntervalMs
               ELSE s1.now - Get(s1.lastTickAtMs), LAMBDA elapsedMsRaw :
          Bind(Max(0, Min(1000, elapsedMsRaw)), LAMBDA elapsedMs :
            emitFrame(catchUp([s1 EXCEPT !.lastTickAtMs = Some(s1.now),
                                         !.state.positionMs = @ + elapsedMs,
                                         !.ticked = @ + elapsedMs])))))

\* the interval callback installed by startMixTimer
mixTick(s) ==
    IF s.state.isPlaying \/ IsNone(s.mixTransition) THEN stopMixTimer(s)
    ELSE emitFrame(s)

-----------------------------------------------------------------------------
(* Inputs of the model *)

Dt == MODE_SWITCH_FADE_MS \div 2      \* one clock step

Listeners == {"l1"}

Scalar(n) == [isArray |-> FALSE, v |-> n]
Array(a) == [isArray |-> TRUE, v |-> a]

Frame(fixtureId, featureId, value) ==
    [fixtureId |-> fixtureId, featureId |-> featureId, value |-> value]

\* two steps fading red to blue over the whole step, looping
ProgramFade ==
    [id |-> "fade", spm |-> 120, loop |-> TRUE,
     steps |-> << [id |-> 1, durationMs |-> 500, fadeMs |-> 500,
                   frames |-> << Frame("f1", "rgb", Array(<< 255, 0, 0 >>)) >>],
                  [id |-> 2, durationMs |-> 500, fadeMs |-> 500,
                   frames |-> << Frame("f1", "rgb", Array(<< 0, 0, 255 >>)) >>] >>]

\* one step without fade, not looping, at twice the tempo, with a value above
\* 255 (neither the routes nor the configuration loader check the range)
ProgramOnce ==
    [id |-> "once", spm |-> 240, loop |-> FALSE,
     steps |-> << [id |-> 1, durationMs |-> 500, fadeMs |-> 0,
                   frames |-> << Frame("f2", "dim", Scalar(300)) >>] >>]

\* no steps and an spm below the range
ProgramEmpty == [id |-> "empty", spm |-> 0, loop |-> TRUE, steps |-> << >>]

Programs == {ProgramFade, ProgramOnce, ProgramEmpty}

\* four steps of the base length without fade, looping, at the given tempo
ProgramLoop(spm) ==
    [id |-> "loop", spm |-> spm, loop |-> TRUE,
     steps |-> [n \in 1..4 |->
                  [id |-> n, durationMs |-> 500, fadeMs |-> 0,
                   frames |-> << Frame("f2", "dim", Scalar(50 * n)) >>]]]

\* a tempo whose step lasts a whole number of milliseconds (500) and one whose
\* step does not (6666.66...)
LoopSpms == {120, 9}

\* the time between two clock readings, in ms
ElapsedInputs == {500, 1000}

SetProgramOptions ==
    {[preservePlayhead |-> FALSE, suppressEmit |-> FALSE],
     [preservePlayhead |-> TRUE, suppressEmit |-> TRUE]}

StepInputs == -1..MaxStepInput
SpmInputs == {240}
FpsInputs == {500}

SetOp(fixtureId, featureId, value) ==
    [kind |-> "set", fixtureId |-> fixtureId, featureId |-> featureId, value |-> value]
ClearFeatureOp(fixtureId, featureId) ==
    [kind |-> "clearFeature", fixtureId |-> fixtureId, featureId |-> featureId,
     value |-> Scalar(0)]
ClearFixtureOp(fixtureId) ==
    [kind |-> "clearFixture", fixtureId |-> fixtureId, featureId |-> "", value |-> Scalar(0)]

\* the writes given to setLayerAValue: in range, above 255, all zero, below 0
LayerAWrites ==
    {SetOp("f1", "rgb", Array(<< 10, 20, 30 >>)),
     SetOp("f1", "dim", Scalar(300)),
     SetOp("f1", "rgb", Array(<< 0, 0, 0 >>)),
     SetOp("f1", "dim", Scalar(-5)),
     SetOp("f2", "dim", Scalar(7))}

LayerAKeys == {<< "f1", "rgb" >>, << "f1", "dim" >>, << "f2", "dim" >>}

Batches ==
    {<< >>,
     << SetOp("f1", "rgb", Array(<< 10, 20, 30 >>)), ClearFeatureOp("f1", "dim") >>,
     << SetOp("f1", "dim", Scalar(7)), SetOp("f1", "dim", Scalar(0)) >>}

\* the playhead of scenario 2, an out-of-range one, and the current one (the
\* editor's rebind passes back an earlier getState())
Snapshots(s) ==
    {[stepIndex |-> 1, positionMs |-> 250, positionMsLow |-> <<0, 0>>, spm |-> 120,
      loop |-> TRUE, isBlackout |-> FALSE, isPlaying |-> TRUE],
     [stepIndex |-> 5, positionMs |-> -10, positionMsLow |-> <<0, 0>>, spm |-> 0,
      loop |-> FALSE, isBlackout |-> TRUE, isPlaying |-> FALSE],
     [stepIndex |-> s.state.stepIndex, positionMs |-> s.state.positionMs,
      positionMsLow |-> s.state.positionMsLow, spm |-> s.state.spm, loop |-> s.state.loop,
      isBlackout |-> s.state.isBlackout, isPlaying |-> s.state.isPlaying]}

-----------------------------------------------------------------------------
(* The layer-A store as section 4.3 of the specification words it, kept     *)
(* beside the code's map as the history variable lastWrite                  *)

RefClamp(x) == IF x < 0 THEN 0 ELSE IF x > 255 THEN 255 ELSE x

RefWrite(m, operation) ==
    LET key == << operation.fixtureId, ":", operation.featureId >>
        raw == IF operation.value.isArray THEN operation.value.v ELSE << operation.value.v >>
        vec == [i \in 1..Len(raw) |-> RefClamp(raw[i])]
        without(keys) == [k \in DOMAIN m \ keys |-> m[k]]
    IN CASE operation.kind = "set" ->
              IF \A i \in 1..Len(vec) : vec[i] = 0
              THEN without({key})
              ELSE [k \in DOMAIN m \cup {key} |-> IF k = key THEN vec ELSE m[k]]
         [] operation.kind = "clearFeature" -> without({key})
         [] operation.kind = "clearFixture" ->
              without({k \in DOMAIN m : k[1] = operation.fixtureId})

RECURSIVE RefWriteAll(_, _)
RefWriteAll(m, operations) ==
    IF Len(operations) = 0 THEN m
    ELSE RefWriteAll(RefWrite(m, Head(operations)), Tail(operations))

-----------------------------------------------------------------------------
(* The state machine *)

SequencerInit ==
    /\ state = [isPlaying |-> FALSE, isBlackout |-> FALSE, programId |-> None,
                stepIndex |-> 0, positionMs |-> 0, positionMsLow |-> <<0, 0>>,
                spm |-> 120, loop |-> TRUE]
    /\ timer = None
    /\ mixTimer = None
    /\ frameIntervalMs = 33
    /\ lastTickAtMs = None
    /\ listeners = {}
    /\ activeProgram = None
    /\ layerAValues = << >>
    /\ mixTransition = None
    /\ now = 0
    /\ emitted = << >>
    /\ begun = 0
    /\ lastWrite = << >>
    /\ owed = FALSE
    /\ calls = 0
    /\ ticked = 0

\* nothing has been rendered or sent yet
OutputsInit ==
    /\ renderInput = None
    /\ packet = None
    /\ artDmxInput = None
    /\ artDmxPacket = << >>
    /\ cachedFrames = << >>
    /\ isFlushing = FALSE
    /\ flushRequested = FALSE
    /\ flushLoops = << >>
    /\ wire = << >>
    /\ passStart = << >>
    /\ passSent = << >>
    /\ owedPass = FALSE
    /\ latest = << >>
    /\ firstInserted = << >>
    /\ sendError = FALSE
    /\ pushes = 0
    /\ runtime = None
    /\ lightCommands = 0
    /\ commanded = None
    /\ controlCalls = << >>
    /\ queuedRef = << >>
    /\ programs = << [name |-> "Once"] @@ ProgramOnce >>
    /\ lastPublished = << >>

Init == SequencerInit /\ OutputsInit

\* the object after a call becomes the state of the sequencer
CommitSequencer(s) ==
    /\ state' = s.state
    /\ timer' = s.timer
    /\ mixTimer' = s.mixTimer
    /\ frameIntervalMs' = s.frameIntervalMs
    /\ lastTickAtMs' = s.lastTickAtMs
    /\ listeners' = s.listeners
    /\ activeProgram' = s.activeProgram
    /\ layerAValues' = s.layerAValues
    /\ mixTransition' = s.mixTransition
    /\ now' = s.now
    /\ emitted' = s.emitted
    /\ begun' = s.begun
    /\ ticked' = s.ticked

\* a call that leaves the outputs alone
Commit(s) ==
    /\ CommitSequencer(s)
    /\ UNCHANGED outputVars

\* a frame whose visible values are layer A was handed to the listeners
DeliveredLayerA(s) ==
    \E i \in 1..Len(s.emitted) : s.emitted[i].frame.values = s.layerAValues

\* a call that is neither read-only nor a layer-A edit
Mutation(s) ==
    /\ Commit(s)
    /\ owed' = FALSE
    /\ UNCHANGED lastWrite

\* a read-only call, or a firing of the mix timer
Observation(s) ==
    /\ Commit(s)
    /\ owed' = (owed /\ ~DeliveredLayerA(s))
    /\ UNCHANGED lastWrite

\* a layer-A edit made of the given operations; `due` tells whether the claim
\* about the final frame of a static-mode edit speaks of this method
LayerAEdited(s, operations, due) ==
    /\ lastWrite' = RefWriteAll(lastWrite, operations)
    /\ owed' = (/\ due
                /\ getVisibleMixMode(self) = "static"
                /\ s.layerAValues # layerAValues
                /\ ~DeliveredLayerA(s))

\* a layer-A edit that leaves the outputs alone
LayerAEdit(s, operations, due) ==
    /\ Commit(s)
    /\ LayerAEdited(s, operations, due)

\* a public call is counted; a timer callback is not
Counted == calls < MaxCalls /\ calls' = calls + 1

\* one call of each public method, with its arguments
SetProgramCall(program, options) == Counted /\ Mutation(setProgram(self, program, options))
SetStepCall(i) == Counted /\ Mutation(setStep(self, i))
SetSpmCall(spm) == Counted /\ Mutation(setSpm(self, spm))
SetLoopCall(enabled) == Counted /\ Mutation(setLoop(self, enabled))
SetFrameRateCall(fps) == Counted /\ Mutation(setFrameRate(self, fps))
SetBlackoutCall(enabled) == Counted /\ Mutation(setBlackout(self, enabled))
SetLayerAValueCall(w) ==
    Counted /\ LayerAEdit(setLayerAValue(self, w.fixtureId, w.featureId, w.value), << w >>, TRUE)
ClearLayerAFeatureCall(key) ==
    Counted /\ LayerAEdit(clearLayerAFeature(self, key[1], key[2]),
               << ClearFeatureOp(key[1], key[2]) >>, FALSE)
ClearLayerAFixtureCall(fixtureId) ==
    Counted /\ LayerAEdit(clearLayerAFixture(self, fixtureId), << ClearFixtureOp(fixtureId) >>, FALSE)
ApplyLayerABatchCall(operations) ==
    Counted /\ LayerAEdit(applyLayerABatch(self, operations), operations, TRUE)
ApplyStateSnapshotCall(snapshot) == Counted /\ Mutation(applyStateSnapshot(self, snapshot))

SetProgram == \E program \in Programs, options \in SetProgramOptions :
    SetProgramCall(program, options)
GetState == Counted /\ Observation(getState(self).s)
GetFrame == Counted /\ Observation(getFrame(self).s)
Play == Counted /\ Mutation(play(self))
Resume == Counted /\ Mutation(resume(self))
Pause == Counted /\ Mutation(pause(self))
NextStep == Counted /\ Mutation(nextStep(self))
PreviousStep == Counted /\ Mutation(previousStep(self))
SetStep == \E i \in StepInputs : SetStepCall(i)
SetSpm == \E spm \in SpmInputs : SetSpmCall(spm)
SetLoop == \E enabled \in BOOLEAN : SetLoopCall(enabled)
SetFrameRate == \E fps \in FpsInputs : SetFrameRateCall(fps)
SetBlackout == \E enabled \in BOOLEAN : SetBlackoutCall(enabled)
SetLayerAValue == \E w \in LayerAWrites : SetLayerAValueCall(w)
ClearLayerAFeature == \E key \in LayerAKeys : ClearLayerAFeatureCall(key)
ClearLayerAFixture == \E key \in LayerAKeys : ClearLayerAFixtureCall(key[1])
ApplyLayerABatch == \E operations \in Batches : ApplyLayerABatchCall(operations)
ApplyStateSnapshot == \E snapshot \in Snapshots(self) : ApplyStateSnapshotCall(snapshot)
Subscribe == \E listener \in Listeners \ listeners : Counted /\ Mutation(subscribe(self, listener))
Unsubscribe == \E listener \in listeners : Counted /\ Mutation(unsubscribe(self, listener))

\* the sequencer interval fires, some time after it was set or last fired
Tick ==
    /\ IsSome(timer)
    /\ IsSome(lastTickAtMs) => now > Get(lastTickAtMs)
    /\ Mutation(tick(self))
    /\ UNCHANGED calls

\* the mix interval fires
MixTick ==
    /\ IsSome(mixTimer)
    /\ Observation(mixTick(self))
    /\ UNCHANGED calls

\* the clock moves on
Advance ==
    /\ now < MaxAdvances * Dt
    /\ now' = now + Dt
    /\ UNCHANGED << state, timer, mixTimer, frameIntervalMs, lastTickAtMs, listeners,
                    activeProgram, layerAValues, mixTransition,
                    emitted, begun, lastWrite, owed, calls, ticked >>
    /\ UNCHANGED outputVars

Next ==
    \/ SetProgram \/ GetState \/ GetFrame \/ Play \/ Resume \/ Pause
    \/ NextStep \/ PreviousStep \/ SetStep \/ SetSpm \/ SetLoop \/ SetFrameRate
    \/ SetBlackout \/ SetLayerAValue \/ ClearLayerAFeature \/ ClearLayerAFixture
    \/ ApplyLayerABatch \/ ApplyStateSnapshot \/ Subscribe \/ Unsubscribe
    \/ Tick \/ MixTick \/ Advance

Spec == Init /\ [][Next]_vars

-----------------------------------------------------------------------------
(* Playback of a looping program: setProgram, play, then only the clock and  *)
(* the tick timer                                                            *)

LoadLoop == \E spm \in LoopSpms :
    /\ IsNone(activeProgram)
    /\ SetProgramCall(ProgramLoop(spm), [preservePlayhead |-> FALSE, suppressEmit |-> FALSE])

\* the clock moves on while the tick timer runs; a tick that comes more than
\* 1000 ms after the one before it counts 1000 ms
Elapse == \E elapsedMs \in ElapsedInputs :
    /\ IsSome(lastTickAtMs)
    /\ now - Get(lastTickAtMs) <= 1000
    /\ ticked < MaxTicked
    /\ now' = now + elapsedMs
    /\ UNCHANGED << state, timer, mixTimer, frameIntervalMs, lastTickAtMs, listeners,
                    activeProgram, layerAValues, mixTransition,
                    emitted, begun, lastWrite, owed, calls, ticked >>
    /\ UNCHANGED outputVars

TickNext == LoadLoop \/ Play \/ Elapse \/ Tick

TickSpec == Init /\ [][TickNext]_vars

-----------------------------------------------------------------------------
(* The rebind of the editor: the program store replaces the program of the  *)
(* sequencer and restores the playhead it read before                       *)

\* s0 = getState(); setProgram(p, {preservePlayhead: true, suppressEmit:
\* true}); applyStateSnapshot(s0)
rebind(s, program) ==
    applyStateSnapshot(setProgram(getState(s).s, program,
                                  [preservePlayhead |-> TRUE, suppressEmit |-> TRUE]),
                       getState(s).result)

RebindCall(program) ==
    /\ IsSome(activeProgram)
    /\ Counted
    /\ Mutation(rebind(self, program))

\* the edited program: one of the programs, or the current one with a step
\* less
Rebind == \E program \in Programs \cup {ProgramLoop(spm) : spm \in LoopSpms} : RebindCall(program)

RebindNext == LoadLoop \/ Play \/ Pause \/ SetBlackout \/ Elapse \/ Tick \/ Rebind

RebindSpec == Init /\ [][RebindNext]_vars

-----------------------------------------------------------------------------
(* The tempo: the calls that set spm, with any number for it *)

\* integers below, in and above the range, and NaN
SpmNumbers == {NaN, -5, 0, 1, 120, 500, 501, 100000}

SetSpmAny == \E spm \in SpmNumbers : SetSpmCall(spm)

SetProgramAny == \E program \in Programs, options \in SetProgramOptions, spm \in SpmNumbers :
    SetProgramCall([program EXCEPT !.spm = spm], options)

ApplyStateSnapshotAny == \E snapshot \in Snapshots(self), spm \in SpmNumbers :
    ApplyStateSnapshotCall([snapshot EXCEPT !.spm = spm])

SpmNext == SetSpmAny \/ SetProgramAny \/ ApplyStateSnapshotAny \/ Pause

SpmSpec == Init /\ [][SpmNext]_vars

-----------------------------------------------------------------------------
(* The two timers: the calls that start and stop them, any number of times, *)
(* while the clock runs                                                     *)

\* a call that is not counted
Uncounted(s) == Mutation(s) /\ UNCHANGED calls

\* a program without steps, or one that ends
TimersSetProgram == \E program \in {ProgramEmpty, ProgramOnce} :
    Uncounted(setProgram(self, program, [preservePlayhead |-> FALSE, suppressEmit |-> FALSE]))
TimersPlay == Uncounted(play(self))
TimersResume == Uncounted(resume(self))
TimersPause == Uncounted(pause(self))
TimersApplyStateSnapshot == \E snapshot \in Snapshots(self) :
    Uncounted(applyStateSnapshot(self, snapshot))
TimersSetFrameRate == \E fps \in FpsInputs : Uncounted(setFrameRate(self, fps))

TimersNext ==
    \/ TimersSetProgram \/ TimersPlay \/ TimersResume \/ TimersPause
    \/ TimersApplyStateSnapshot \/ TimersSetFrameRate \/ Tick \/ MixTick \/ Advance

TimersSpec == Init /\ [][TimersNext]_vars

-----------------------------------------------------------------------------
(* Playback to the end: setProgram, play, then only the clock and the tick  *)
(* timer, with ticks a fraction of a step apart                             *)

\* two steps from red to blue whose fade of 500 ms is longer than the 250 ms
\* a step lasts at this tempo, not looping
ProgramFadeOut == [ProgramFade EXCEPT !.id = "fadeout", !.spm = 240, !.loop = FALSE]

EndingPrograms == {ProgramOnce, ProgramFadeOut, ProgramFade}

ShortElapsedInputs == {50, 100}

LoadEnding == \E program \in EndingPrograms :
    /\ IsNone(activeProgram)
    /\ SetProgramCall(program, [preservePlayhead |-> FALSE, suppressEmit |-> FALSE])

ElapseShort == \E elapsedMs \in ShortElapsedInputs :
    /\ IsSome(lastTickAtMs)
    /\ now = Get(lastTickAtMs)
    /\ ticked < MaxTicked \div 10
    /\ now' = now + elapsedMs
    /\ UNCHANGED << state, timer, mixTimer, frameIntervalMs, lastTickAtMs, listeners,
                    activeProgram, layerAValues, mixTransition,
                    emitted, begun, lastWrite, owed, calls, ticked >>
    /\ UNCHANGED outputVars

EndNext == LoadEnding \/ Play \/ ElapseShort \/ Tick

EndSpec == Init /\ [][EndNext]_vars

\* the tick timer is installed for a playback with steps and time has passed
\* since its last tick: Tick can fire, and it moves lastTickAtMs
TickEnabled ==
    /\ IsSome(timer)
    /\ IsSome(activeProgram)
    /\ state.isPlaying
    /\ stepCount(self) > 0
    /\ IsSome(lastTickAtMs) => now > Get(lastTickAtMs)

\* setInterval keeps firing and the clock keeps running between its ticks:
\* WF_vars(ElapseShort) and WF_vars(Tick), the latter written out with the
\* condition that enables Tick
EndLiveSpec ==
    /\ EndSpec
    /\ WF_vars(ElapseShort)
    /\ ([]<>(~TickEnabled) \/ []<><<Tick>>_vars)

-----------------------------------------------------------------------------
(* The catch-up of a tick: steps of several lengths at the slowest, the     *)
(* usual and the fastest tempo, a change of tempo, and ticks up to two      *)
(* seconds apart                                                            *)

\* steps of half, once and twice the base length, without fade
ProgramTimed(spm, loop) ==
    [id |-> "timed", spm |-> spm, loop |-> loop,
     steps |-> << [id |-> 1, durationMs |-> 250, fadeMs |-> 0,
                   frames |-> << Frame("f2", "dim", Scalar(10)) >>],
                  [id |-> 2, durationMs |-> 500, fadeMs |-> 0,
                   frames |-> << Frame("f2", "dim", Scalar(20)) >>],
                  [id |-> 3, durationMs |-> 1000, fadeMs |-> 0,
                   frames |-> << Frame("f2", "dim", Scalar(30)) >>] >>]

\* the ends of the range of spm and the default tempo
TimedSpms == {1, 120, 500}

\* the time between two clock readings, in ms: a part of the shortest step,
\* several steps, and more than the 1000 ms a tick counts
LongElapsedInputs == {50, 700, 2000}

LoadTimed == \E spm \in TimedSpms, loop \in BOOLEAN :
    /\ IsNone(activeProgram)
    /\ SetProgramCall(ProgramTimed(spm, loop), [preservePlayhead |-> FALSE, suppressEmit |-> FALSE])

SetSpmTimed == \E spm \in TimedSpms : SetSpmCall(spm)

ElapseLong == \E elapsedMs \in LongElapsedInputs :
    /\ IsSome(lastTickAtMs)
    /\ now = Get(lastTickAtMs)
    /\ ticked + Min(1000, elapsedMs) <= MaxTicked \div 20
    /\ now' = now + elapsedMs
    /\ UNCHANGED << state, timer, mixTimer, frameIntervalMs, lastTickAtMs, listeners,
                    activeProgram, layerAValues, mixTransition,
                    emitted, begun, lastWrite, owed, calls, ticked >>
    /\ UNCHANGED outputVars

CatchUpNext == LoadTimed \/ Play \/ SetSpmTimed \/ ElapseLong \/ Tick

CatchUpSpec == Init /\ [][CatchUpNext]_vars

-----------------------------------------------------------------------------
(* The playhead under the calls that move it: any number of setProgram,     *)
(* setStep, nextStep, previousStep and applyStateSnapshot (which also       *)
(* starts and stops the playback), with the clock and the tick timer        *)

StepsSetProgram == \E program \in {ProgramFade, ProgramOnce}, options \in SetProgramOptions :
    Uncounted(setProgram(self, program, options))
StepsSetStep == \E i \in StepInputs : Uncounted(setStep(self, i))
StepsNextStep == Uncounted(nextStep(self))
StepsPreviousStep == Uncounted(previousStep(self))
StepsApplyStateSnapshot == \E snapshot \in Snapshots(self) :
    Uncounted(applyStateSnapshot(self, snapshot))

\* the clock moves on by the length of a step of ProgramFade, twice
StepsAdvance ==
    /\ now < 2 * MODE_SWITCH_FADE_MS
    /\ now' = now + MODE_SWITCH_FADE_MS
    /\ UNCHANGED << state, timer, mixTimer, frameIntervalMs, lastTickAtMs, listeners,
                    activeProgram, layerAValues, mixTransition,
                    emitted, begun, lastWrite, owed, calls, ticked >>
    /\ UNCHANGED outputVars

StepsNext ==
    \/ StepsNextStep \/ StepsPreviousStep \/ StepsSetProgram \/ StepsSetStep
    \/ StepsApplyStateSnapshot \/ Tick \/ StepsAdvance

StepsSpec == Init /\ [][StepsNext]_vars

-----------------------------------------------------------------------------
(* The render packet builder, src/src/core/render-packet.ts.  A frame is     *)
(* given by Object.entries(frame.values), the sequence of its keys and byte  *)
(* vectors in insertion order.                                               *)

UNIVERSE_SIZE == 512

\* clampDmx of the fraction num / den
clampDmx(num, den) ==
    IF num < 0 THEN 0
    ELSE IF num > 255 * den THEN 255
    ELSE Round(num, den)

\* items.find((item) => item.id === id): the first item with the id
FindById(items, id) ==
    LET found == {i \in 1..Len(items) : items[i].id = id}
    IN IF found = {} THEN None
       ELSE Some(items[CHOOSE i \in found : \A j \in found : i <= j])

\* new Map(items.map((item) => [item.id, item])).get(id): the last item with the id
MapGetById(items, id) ==
    LET found == {i \in 1..Len(items) : items[i].id = id}
    IN IF found = {} THEN None
       ELSE Some(items[CHOOSE i \in found : \A j \in found : j <= i])

\* dmxByUniverse.get(universe) ?? new Uint8Array(512)
BufferOf(dmxByUniverse, universe) ==
    IF universe \in DOMAIN dmxByUniverse THEN dmxByUniverse[universe]
    ELSE [dmxAddress \in 1..UNIVERSE_SIZE |-> 0]

\* dmxByUniverse.set(universe, buffer)
SetBuffer(dmxByUniverse, universe, buffer) ==
    [u \in DOMAIN dmxByUniverse \cup {universe} |->
        IF u = universe THEN buffer ELSE dmxByUniverse[u]]

\* buffer[dmxAddress - 1] = value, after the check of the address
WriteDmx(buffer, dmxAddress, value) ==
    IF dmxAddress < 1 \/ dmxAddress > UNIVERSE_SIZE THEN buffer
    ELSE [buffer EXCEPT ![dmxAddress] = value]

\* the loop over the footprint of one fixture, from fixtureChannel on
RECURSIVE zeroFootprint(_, _, _, _)
zeroFootprint(buffer, fixture, fixtureDef, fixtureChannel) ==
    IF fixtureChannel > fixtureDef.channels THEN buffer
    ELSE zeroFootprint(WriteDmx(buffer, fixture.address + fixtureChannel - 1, 0),
                       fixture, fixtureDef, fixtureChannel + 1)

\* the loop over environment.fixtures
RECURSIVE zeroFootprints(_, _, _)
zeroFootprints(dmxByUniverse, fixtures, config) ==
    IF Len(fixtures) = 0 THEN dmxByUniverse
    ELSE
      Bind(Head(fixtures), LAMBDA fixture :
      Bind(MapGetById(config.fixtures, fixture.fixtureTypeId), LAMBDA fixtureDef :
        IF IsNone(fixtureDef) THEN zeroFootprints(dmxByUniverse, Tail(fixtures), config)
        ELSE zeroFootprints(
               SetBuffer(dmxByUniverse, fixture.universe,
                         zeroFootprint(BufferOf(dmxByUniverse, fixture.universe),
                                       fixture, Get(fixtureDef), 1)),
               Tail(fixtures), config)))

\* variant: a feature range is never scaled into, only clamped to
channelValue_clampOnly(featureDef, rawValue) ==
    LET normalized == Max(0, Min(255, rawValue))
        min == IF IsSome(featureDef.range) THEN Get(featureDef.range).min ELSE 0
        max == IF IsSome(featureDef.range) THEN Get(featureDef.range).max ELSE 255
    IN clampDmx(Max(min, Min(max, normalized)), 1)

\* the byte written for rawValue: normalized, value and clampDmx(value)
channelValue(featureDef, rawValue) ==
    LET normalized == Max(0, Min(255, rawValue))
        min == IF IsSome(featureDef.range) THEN Get(featureDef.range).min ELSE 0
        max == IF IsSome(featureDef.range) THEN Get(featureDef.range).max ELSE 255
        shouldScaleFrom255 == min = 0 /\ max > 0 /\ max < 255
    IN IF shouldScaleFrom255 THEN clampDmx(normalized * max, 255)
       ELSE clampDmx(Max(min, Min(max, normalized)), 1)

\* the loop over featureDef.channels, from the 1-based index i on
RECURSIVE writeFeature(_, _, _, _, _)
writeFeature(buffer, fixture, featureDef, values, i) ==
    IF i > Len(featureDef.channels) THEN buffer
    ELSE writeFeature(
           WriteDmx(buffer, fixture.address + featureDef.channels[i] - 1,
                    channelValue(featureDef, ElementOrFirst(values, i))),
           fixture, featureDef, values, i + 1)

\* the loop over Object.entries(frame.values)
RECURSIVE writeValues(_, _, _, _)
writeValues(dmxByUniverse, entries, environment, config) ==
    IF Len(entries) = 0 THEN dmxByUniverse
    ELSE
      Bind(Head(entries), LAMBDA entry :
      Bind(MapGetById(environment.fixtures, entry.key[1]), LAMBDA fixture :
        IF IsNone(fixture) THEN writeValues(dmxByUniverse, Tail(entries), environment, config)
        ELSE
          Bind(MapGetById(config.fixtures, Get(fixture).fixtureTypeId), LAMBDA fixtureDef :
            IF IsNone(fixtureDef)
            THEN writeValues(dmxByUniverse, Tail(entries), environment, config)
            ELSE
              Bind(FindById(Get(fixtureDef).features, entry.key[3]), LAMBDA featureDef :
                IF IsNone(featureDef)
                THEN writeValues(dmxByUniverse, Tail(entries), environment, config)
                ELSE writeValues(
                       SetBuffer(dmxByUniverse, Get(fixture).universe,
                                 writeFeature(BufferOf(dmxByUniverse, Get(fixture).universe),
                                              Get(fixture), Get(featureDef), entry.values, 1)),
                       Tail(entries), environment, config)))))

\* null (None), or the packet
buildRenderPacket(frame, config, environmentId) ==
    Bind(FindById(config.environments, environmentId), LAMBDA environment :
      IF IsNone(environment) THEN None
      ELSE Some([frame |-> frame,
                 environment |-> Get(environment),
                 dmxByUniverse |->
                    writeValues(zeroFootprints(<< >>, Get(environment).fixtures, config),
                                frame.entries, Get(environment), config)]))

(* Inputs of the render packet builder *)

\* five channels: red, green, blue, a dimmer scaled into 0..100, and one
\* channel that belongs to no feature
FixtureRgbd ==
    [id |-> "rgbd", channels |-> 5,
     features |-> << [id |-> "rgb", channels |-> << 1, 2, 3 >>, range |-> None],
                     [id |-> "dim", channels |-> << 4 >>,
                      range |-> Some([min |-> 0, max |-> 100])] >>]

\* one channel clamped to 10..200
FixturePar ==
    [id |-> "par", channels |-> 1,
     features |-> << [id |-> "dim", channels |-> << 1 >>,
                      range |-> Some([min |-> 10, max |-> 200])] >>]

EnvironmentFixture(id, fixtureTypeId, universe, address) ==
    [id |-> id, fixtureTypeId |-> fixtureTypeId, universe |-> universe, address |-> address]

\* two universes; the end of a universe, where channels are dropped; two
\* fixtures on shared addresses; a fixture whose type is in no fixtures file;
\* no fixtures
RenderEnvironments ==
    << [id |-> "two", fixtures |-> << EnvironmentFixture("f1", "rgbd", 0, 1),
                                      EnvironmentFixture("f2", "par", 1, 512) >>],
       [id |-> "edge", fixtures |-> << EnvironmentFixture("f1", "rgbd", 0, 510),
                                       EnvironmentFixture("f2", "par", 0, 1) >>],
       [id |-> "shared", fixtures |-> << EnvironmentFixture("f1", "rgbd", 0, 1),
                                         EnvironmentFixture("f2", "par", 0, 2) >>],
       [id |-> "untyped", fixtures |-> << EnvironmentFixture("f1", "rgbd", 0, 1),
                                          EnvironmentFixture("f2", "gone", 3, 1) >>],
       [id |-> "bare", fixtures |-> << >>] >>

RenderConfig ==
    [fixtures |-> << FixtureRgbd, FixturePar >>, environments |-> RenderEnvironments]

EnvironmentIds == {"two", "edge", "shared", "untyped", "bare", "nowhere"}

Entry(fixtureId, featureId, values) ==
    [key |-> frameKey(fixtureId, featureId), values |-> values]

\* full, short, empty and out-of-range byte vectors, for known and unknown
\* fixtures and features
RenderEntries ==
    { Entry("f1", "rgb", << 255, 128, 7 >>), Entry("f1", "rgb", << 40 >>),
      Entry("f1", "rgb", << >>), Entry("f1", "dim", << 128 >>),
      Entry("f1", "dim", << 300 >>), Entry("f2", "dim", << 255 >>),
      Entry("f2", "dim", << -5 >>), Entry("f1", "pan", << 9 >>),
      Entry("f9", "dim", << 9 >>) }

\* frames of at most two keys
RenderFrames ==
    {[entries |-> << >>]}
    \cup {[entries |-> << e >>] : e \in RenderEntries}
    \cup {[entries |-> << e1, e2 >>] : e1, e2 \in RenderEntries}

RenderInputs ==
    {[frame |-> frame, environmentId |-> environmentId] :
        frame \in {f \in RenderFrames :
                      \A i, j \in 1..Len(f.entries) :
                          i # j => f.entries[i].key # f.entries[j].key},
        environmentId \in EnvironmentIds}

\* one call of buildRenderPacket
BuildRenderPacket == \E input \in RenderInputs :
    /\ renderInput' = Some(input)
    /\ packet' = buildRenderPacket(input.frame, RenderConfig, input.environmentId)
    /\ UNCHANGED << sequencerVars, artDmxVars, artnetVars, mqttVars >>

RenderNext == BuildRenderPacket

RenderSpec == Init /\ [][RenderNext]_vars

-----------------------------------------------------------------------------
(* The Art-Net output, src/src/outputs/artnet-output.ts *)

\* "Art-Net\0" in ASCII
ArtNetId == << 65, 114, 116, 45, 78, 101, 116, 0 >>

\* Buffer.alloc(size)
BufferAlloc(size) == [offset \in 1..size |-> 0]

\* header.write(string, offset, "ascii"), for the bytes of the string
BufferWrite(buffer, bytes, offset) ==
    [i \in 1..Len(buffer) |->
        IF i > offset /\ i <= offset + Len(bytes) THEN bytes[i - offset] ELSE buffer[i]]

writeUInt8(buffer, value, offset) == [buffer EXCEPT ![offset + 1] = value % 256]

writeUInt16LE(buffer, value, offset) ==
    [buffer EXCEPT ![offset + 1] = value % 256, ![offset + 2] = (value \div 256) % 256]

writeUInt16BE(buffer, value, offset) ==
    [buffer EXCEPT ![offset + 1] = (value \div 256) % 256, ![offset + 2] = value % 256]

\* universe & 0x7fff: the low 15 bits of the two's complement of universe
LowBits15(universe) == universe % 32768

\* variant: the universe is written high byte first
buildArtDmxPacket_universeBE(universe, dmx) ==
    Bind(BufferWrite(BufferAlloc(18), ArtNetId, 0), LAMBDA h0 :
    Bind(writeUInt16LE(h0, 20480, 8), LAMBDA h1 :
    Bind(writeUInt16BE(h1, 14, 10), LAMBDA h2 :
    Bind(writeUInt8(writeUInt8(h2, 0, 12), 0, 13), LAMBDA h3 :
    Bind(writeUInt16BE(h3, LowBits15(universe), 14), LAMBDA h4 :
    Bind(writeUInt16BE(h4, Len(dmx), 16), LAMBDA header :
      header \o dmx))))))

buildArtDmxPacket(universe, dmx) ==
    Bind(BufferWrite(BufferAlloc(18), ArtNetId, 0), LAMBDA h0 :
    Bind(writeUInt16LE(h0, 20480, 8), LAMBDA h1 :
    Bind(writeUInt16BE(h1, 14, 10), LAMBDA h2 :
    Bind(writeUInt8(writeUInt8(h2, 0, 12), 0, 13), LAMBDA h3 :
    Bind(writeUInt16LE(h3, LowBits15(universe), 14), LAMBDA h4 :
    Bind(writeUInt16BE(h4, Len(dmx), 16), LAMBDA header :
      header \o dmx))))))

(* Inputs of buildArtDmxPacket *)

\* universes on both sides of a byte and of the 15 bits of the mask
ArtDmxUniverses == {0, 1, 255, 256, 257, 4660, 32767, 32768, 32769, 40000, 65535}

\* a universe buffer with the given bytes on its first addresses
DmxBuffer(bytes) ==
    [dmxAddress \in 1..UNIVERSE_SIZE |-> IF dmxAddress <= Len(bytes) THEN bytes[dmxAddress] ELSE 0]

\* payloads of 0 to 3 bytes, of 256 and 258 bytes, and whole universes
ArtDmxPayloads ==
    { << >>, << 0 >>, << 255 >>, << 1, 2 >>, << 255, 0, 128 >>,
      [i \in 1..256 |-> i - 1], [i \in 1..258 |-> 7],
      DmxBuffer(<< >>), DmxBuffer(<< 255 >>), DmxBuffer(<< 1, 2, 3 >>) }

\* one call of buildArtDmxPacket
BuildArtDmxPacket == \E universe \in ArtDmxUniverses, dmx \in ArtDmxPayloads :
    /\ artDmxInput' = Some([universe |-> universe, dmx |-> dmx])
    /\ artDmxPacket' = buildArtDmxPacket(universe, dmx)
    /\ UNCHANGED << sequencerVars, renderVars, artnetVars, mqttVars >>

ArtDmxNext == BuildArtDmxPacket

ArtDmxSpec == Init /\ [][ArtDmxNext]_vars

(* The ArtnetOutput object is a record `a`.  flushLoop is an async function: *)
(* it runs until its await of sendFrame, which has handed one datagram to    *)
(* the socket, and is continued by the callback of that send.  A suspended   *)
(* call of flushLoop is an entry of flushLoops: the frames of its pass that  *)
(* are still to be sent, and the frame whose send it awaits.                 *)

artnetSelf ==
    [ cachedFrames |-> cachedFrames, isFlushing |-> isFlushing,
      flushRequested |-> flushRequested, flushLoops |-> flushLoops,
      wire |-> << >>, passStart |-> passStart, passSent |-> passSent,
      owedPass |-> owedPass ]

\* `${target.host}|${target.port}|${universe}`
cacheKey(host, port, universe) == << host, "|", port, "|", universe >>

\* variant: the entry of a key that is set again moves to the end
MapSet_moveToEnd(entries, key, value) ==
    SelectSeq(entries, LAMBDA entry : entry.key # key)
        \o << [key |-> key, value |-> value] >>

\* variant: the entry of a key that is set again keeps its value
MapSet_keepValue(entries, key, value) ==
    IF \E i \in 1..Len(entries) : entries[i].key = key THEN entries
    ELSE Append(entries, [key |-> key, value |-> value])

\* Map.prototype.set on the entries of the map in insertion order
MapSet(entries, key, value) ==
    IF \E i \in 1..Len(entries) : entries[i].key = key
    THEN [i \in 1..Len(entries) |->
            IF entries[i].key = key THEN [key |-> key, value |-> value] ELSE entries[i]]
    ELSE Append(entries, [key |-> key, value |-> value])

isArtnetOutput(output) == output.type = "artnet" /\ output.enabled

\* the keys of Object.entries(packet.dmxByUniverse): universes in ascending order
RECURSIVE Ascending(_)
Ascending(universes) ==
    IF universes = {} THEN << >>
    ELSE LET least == CHOOSE u \in universes : \A v \in universes : u <= v
         IN << least >> \o Ascending(universes \ {least})

\* the loop over Object.entries(packet.dmxByUniverse) for one target
RECURSIVE cacheUniverses(_, _, _, _)
cacheUniverses(a, target, dmxByUniverse, universes) ==
    IF Len(universes) = 0 THEN a
    ELSE
      Bind(Head(universes), LAMBDA universe :
        IF /\ IsSome(target.universes)
           /\ \A i \in 1..Len(Get(target.universes)) : Get(target.universes)[i] # universe
        THEN cacheUniverses(a, target, dmxByUniverse, Tail(universes))
        ELSE cacheUniverses(
               [a EXCEPT !.cachedFrames =
                  MapSet(@, cacheKey(target.host, target.port, universe),
                         [host |-> target.host, port |-> target.port,
                          universe |-> universe, dmx |-> dmxByUniverse[universe]])],
               target, dmxByUniverse, Tail(universes)))

\* the loop over targets
RECURSIVE cacheTargets(_, _, _)
cacheTargets(a, targets, renderPacket) ==
    IF Len(targets) = 0 THEN a
    ELSE cacheTargets(cacheUniverses(a, Head(targets), renderPacket.dmxByUniverse,
                                     Ascending(DOMAIN renderPacket.dmxByUniverse)),
                      Tail(targets), renderPacket)

\* sendFrame up to its await: the datagram is handed to the socket
sendFrame(a, entry) ==
    [a EXCEPT !.wire = Append(@, [packet |-> buildArtDmxPacket(entry.value.universe,
                                                               entry.value.dmx),
                                  port |-> entry.value.port,
                                  host |-> entry.value.host,
                                  key |-> entry.key]),
              !.passSent = Append(@, entry)]

\* flushLoop before the next frame of its pass, of which `frames` are still
\* to be sent: up to the next await, or to the end of the function
RECURSIVE flushLoopFrom(_, _)
flushLoopFrom(a, frames) ==
    IF Len(frames) > 0
    THEN [sendFrame(a, Head(frames)) EXCEPT
            !.flushLoops = Append(@, [frames |-> Tail(frames), awaiting |-> Head(frames)])]
    ELSE IF a.flushRequested
    THEN flushLoopFrom([a EXCEPT !.flushRequested = FALSE,
                                 !.passStart = a.cachedFrames,
                                 !.passSent = << >>,
                                 !.owedPass = FALSE],
                       a.cachedFrames)
    ELSE [a EXCEPT !.isFlushing = FALSE]

flushLoop(a) == flushLoopFrom([a EXCEPT !.isFlushing = TRUE], << >>)

\* variant: a new flush loop is started whether or not one is running
requestFlush_always(a) ==
    flushLoop([a EXCEPT !.flushRequested = TRUE, !.owedPass = TRUE])

\* variant: a request made while a flush loop is running is dropped
requestFlush_dropsWhileFlushing(a) ==
    IF a.isFlushing THEN [a EXCEPT !.owedPass = TRUE]
    ELSE flushLoop([a EXCEPT !.flushRequested = TRUE, !.owedPass = TRUE])

requestFlush(a) ==
    Bind([a EXCEPT !.flushRequested = TRUE, !.owedPass = TRUE], LAMBDA a1 :
      IF a1.isFlushing THEN a1 ELSE flushLoop(a1))

push(a, renderPacket) ==
    Bind(SelectSeq(renderPacket.environment.outputs, isArtnetOutput), LAMBDA targets :
      IF Len(targets) = 0 THEN a
      ELSE requestFlush(cacheTargets(a, targets, renderPacket)))

\* the sequence without its i-th element
RemoveAt(seq, i) == SubSeq(seq, 1, i - 1) \o SubSeq(seq, i + 1, Len(seq))

\* variant: a send that reports an error ends the flush loop
sendCallback_errorAborts(a, i, error) ==
    IF error THEN [a EXCEPT !.flushLoops = RemoveAt(@, i), !.isFlushing = FALSE]
    ELSE flushLoopFrom([a EXCEPT !.flushLoops = RemoveAt(@, i)], a.flushLoops[i].frames)

\* the callback of socket.send for the send the i-th flush loop awaits: the
\* error is logged, the promise resolved and the loop continued
sendCallback(a, i, error) ==
    flushLoopFrom([a EXCEPT !.flushLoops = RemoveAt(@, i)], a.flushLoops[i].frames)

(* Inputs of the Art-Net output *)

ArtnetTarget(id, enabled, host, universes) ==
    [id |-> id, type |-> "artnet", enabled |-> enabled, host |-> host, port |-> 6454,
     universes |-> universes]

\* an environment with an Art-Net target for every universe, one for universe
\* 1 only, a disabled one and the simulator; an environment without Art-Net
ArtnetEnvironments ==
    { [id |-> "stage",
       outputs |-> << [id |-> "sim", type |-> "simulator", enabled |-> TRUE],
                      ArtnetTarget("a", TRUE, "node-a", None),
                      ArtnetTarget("b", TRUE, "node-b", Some(<< 1 >>)),
                      ArtnetTarget("c", FALSE, "node-c", None) >>],
      [id |-> "bench",
       outputs |-> << [id |-> "sim", type |-> "simulator", enabled |-> TRUE] >>] }

\* universe 0 alone, and universes 0 and 1, with a first byte that tells the
\* packets apart
ArtnetPackets ==
    {[environment |-> environment, dmxByUniverse |-> dmxByUniverse] :
        environment \in ArtnetEnvironments,
        dmxByUniverse \in {(0 :> DmxBuffer(<< 1 >>)),
                           (0 :> DmxBuffer(<< 2 >>)) @@ (1 :> DmxBuffer(<< 2 >>)),
                           (0 :> DmxBuffer(<< 3 >>)) @@ (1 :> DmxBuffer(<< 3 >>))}}

(* The reference: what the pushes so far ask the cache to hold *)

\* the cache entries a push writes, by key
PushedFrames(renderPacket) ==
    {[key |-> cacheKey(renderPacket.environment.outputs[t].host,
                       renderPacket.environment.outputs[t].port, universe),
      dmx |-> renderPacket.dmxByUniverse[universe], target |-> t] :
        t \in {t \in 1..Len(renderPacket.environment.outputs) :
                  /\ renderPacket.environment.outputs[t].type = "artnet"
                  /\ renderPacket.environment.outputs[t].enabled},
        universe \in DOMAIN renderPacket.dmxByUniverse}

AllowedFrames(renderPacket) ==
    {pushed \in PushedFrames(renderPacket) :
        LET universes == renderPacket.environment.outputs[pushed.target].universes
        IN IsSome(universes) =>
              \E i \in 1..Len(Get(universes)) : Get(universes)[i] = pushed.key[5]}

\* the keys a push inserts for the first time, by target and then universe
RECURSIVE InOrder(_)
InOrder(frames) ==
    IF frames = {} THEN << >>
    ELSE LET first == CHOOSE f \in frames : \A g \in frames :
                         \/ f.target < g.target
                         \/ f.target = g.target /\ f.key[5] <= g.key[5]
         IN << first.key >> \o InOrder(frames \ {first})

(* The state machine of the Art-Net output *)

CommitArtnet(a) ==
    /\ cachedFrames' = a.cachedFrames
    /\ isFlushing' = a.isFlushing
    /\ flushRequested' = a.flushRequested
    /\ flushLoops' = a.flushLoops
    /\ wire' = a.wire
    /\ passStart' = a.passStart
    /\ passSent' = a.passSent
    /\ owedPass' = a.owedPass
    /\ UNCHANGED << sequencerVars, renderVars, artDmxVars, mqttVars >>

\* push(packet)
Push == \E pushed \in ArtnetPackets :
    /\ pushes < MaxPushes
    /\ pushes' = pushes + 1
    /\ CommitArtnet(push(artnetSelf, pushed))
    /\ latest' = [key \in DOMAIN latest \cup {f.key : f \in AllowedFrames(pushed)} |->
                    IF \E f \in AllowedFrames(pushed) : f.key = key
                    THEN (CHOOSE f \in AllowedFrames(pushed) : f.key = key).dmx
                    ELSE latest[key]]
    /\ firstInserted' = firstInserted
          \o InOrder({f \in AllowedFrames(pushed) :
                        \A i \in 1..Len(firstInserted) : firstInserted[i] # f.key})
    /\ UNCHANGED sendError

\* the interval of the constructor fires
RefreshTimer ==
    /\ CommitArtnet(requestFlush(artnetSelf))
    /\ UNCHANGED << latest, firstInserted, sendError, pushes >>

SendCallback(error) == \E i \in 1..Len(flushLoops) :
    /\ CommitArtnet(sendCallback(artnetSelf, i, error))
    /\ sendError' = error
    /\ UNCHANGED << latest, firstInserted, pushes >>

\* the socket reports that the datagram has been sent
SendSucceeds == SendCallback(FALSE)

\* the socket reports an error for the datagram
SendFails == SendCallback(TRUE)

ArtnetNext == Push \/ RefreshTimer \/ SendSucceeds \/ SendFails

ArtnetSpec == Init /\ [][ArtnetNext]_vars

\* setInterval keeps firing, and every callback of socket.send fires
ArtnetLiveSpec ==
    /\ ArtnetSpec
    /\ WF_vars(RefreshTimer)
    /\ WF_vars(SendSucceeds \/ SendFails)

-----------------------------------------------------------------------------
(* The MQTT bridge: light commands and light states (mqtt-output.ts) *)

\* The bridge computes with doubles where this model computes with exact
\* fractions. For a channel value v and a brightness b in 0..255 the doubles
\* v * (b / 255) and (v / b) * 255 round, by Math.round, to the same whole
\* number as the exact fractions: the first is never half a unit away from a
\* whole number, and the second is exact whenever it is. The colour
\* temperatures of this model keep the quotients of the cct functions away
\* from such ties.

DEFAULT_MIN_KELVIN == 2700
DEFAULT_MAX_KELVIN == 6500

\* the payloads are numbers, so the test of Number.isFinite passes
clampByte(value) ==
    IF value.n <= 0 THEN 0
    ELSE IF value.n >= 255 * value.d THEN 255
    ELSE Round(value.n, value.d)

Whole(values) == [i \in 1..Len(values) |-> Frac(values[i], 1)]

\* Array.isArray(value) ? value.map((item) => clampByte(Number(item))) : ...;
\* a value of layer A is an array
toArray(values) == [i \in 1..Len(values) |-> clampByte(Frac(values[i], 1))]

miredToKelvin(mired) ==
    IF mired <= 0 THEN Frac(DEFAULT_MIN_KELVIN, 1) ELSE Frac(1000000, mired)

kelvinToMired(kelvin) == IF kelvin <= 0 THEN 370 ELSE Round(1000000, kelvin)

cctValuesFromKelvin(kelvin, brightness) ==
    LET safeKelvin == IF kelvin.n < DEFAULT_MIN_KELVIN * kelvin.d
                      THEN Frac(DEFAULT_MIN_KELVIN, 1)
                      ELSE IF kelvin.n > DEFAULT_MAX_KELVIN * kelvin.d
                      THEN Frac(DEFAULT_MAX_KELVIN, 1)
                      ELSE kelvin
        coolRatio == Frac(safeKelvin.n - DEFAULT_MIN_KELVIN * safeKelvin.d,
                          (DEFAULT_MAX_KELVIN - DEFAULT_MIN_KELVIN) * safeKelvin.d)
        warmRatio == Frac(coolRatio.d - coolRatio.n, coolRatio.d)
    IN << clampByte(Frac(brightness * warmRatio.n, warmRatio.d)),
          clampByte(Frac(brightness * coolRatio.n, coolRatio.d)) >>

kelvinFromCct(ww, cw) ==
    IF ww + cw <= 0 THEN DEFAULT_MIN_KELVIN
    ELSE Round(DEFAULT_MIN_KELVIN * (ww + cw) + (DEFAULT_MAX_KELVIN - DEFAULT_MIN_KELVIN) * cw,
               ww + cw)

isLightFixture(definition) ==
    \E i \in 1..Len(definition.features) :
        definition.features[i].kind \in {"rgb", "cct", "scalar"}

supportedColorModes(meta) ==
    (IF IsSome(meta.rgbFeatureId) THEN << "rgb" >> ELSE << >>)
    \o (IF IsSome(meta.cctFeatureId) THEN << "color_temp" >> ELSE << >>)
    \o (IF IsNone(meta.rgbFeatureId) /\ IsNone(meta.cctFeatureId)
        THEN << "brightness" >> ELSE << >>)

scaleValues(base, brightness) ==
    [i \in 1..Len(base) |-> clampByte(Frac(base[i] * clampByte(Frac(brightness, 1)), 255))]

\* values[i] ?? values[values.length - 1] ?? 0
ValueAt(values, i) ==
    IF i <= Len(values) THEN values[i]
    ELSE IF Len(values) > 0 THEN values[Len(values)]
    ELSE Frac(0, 1)

normalizeRgb(values) ==
    << clampByte(ValueAt(values, 1)), clampByte(ValueAt(values, 2)),
       clampByte(ValueAt(values, 3)) >>

normalizeCct(values) == << clampByte(ValueAt(values, 1)), clampByte(ValueAt(values, 2)) >>

\* features.find((feature) => feature.kind === kind)?.id
FeatureOfKind(fixtureDef, kind) ==
    LET found == {i \in 1..Len(fixtureDef.features) : fixtureDef.features[i].kind = kind}
    IN IF found = {} THEN None
       ELSE Some(fixtureDef.features[CHOOSE i \in found : \A j \in found : i <= j].id)

\* the light fixtures of the first n environment fixtures
RECURSIVE buildLightMetaUpTo(_, _, _)
buildLightMetaUpTo(fixtureDefs, environment, n) ==
    IF n = 0 THEN << >>
    ELSE
      Bind(buildLightMetaUpTo(fixtureDefs, environment, n - 1), LAMBDA out :
      Bind(environment.fixtures[n], LAMBDA fixture :
      Bind(MapGetById(fixtureDefs, fixture.fixtureTypeId), LAMBDA fixtureDef :
        IF ~fixture.mqttExpose THEN out
        ELSE IF IsNone(fixtureDef) THEN out
        ELSE IF ~isLightFixture(Get(fixtureDef)) THEN out
        ELSE MapSet(out, fixture.id,
                    [fixtureId |-> fixture.id,
                     name |-> fixture.name,
                     rgbFeatureId |-> FeatureOfKind(Get(fixtureDef), "rgb"),
                     cctFeatureId |-> FeatureOfKind(Get(fixtureDef), "cct"),
                     dimmerFeatureId |-> FeatureOfKind(Get(fixtureDef), "scalar")]))))

buildLightMeta(fixtureDefs, environment) ==
    buildLightMetaUpTo(fixtureDefs, environment, Len(environment.fixtures))

\* the runtime getRuntime creates for a target
newRuntime(fixtureDefs, environment) ==
    [environmentId |-> environment.id,
     \* runtime.client.connected, and the calls the client received in the
     \* current step
     connected |-> FALSE,
     clientCalls |-> << >>,
     lightMetaByFixtureId |-> buildLightMeta(fixtureDefs, environment),
     retainedPayloadCache |-> << >>,
     subscriptions |-> << >>,
     discoveredProgramIds |-> << >>,
     lightStateByFixtureId |-> << >>,
     pendingLightOpsByFixture |-> << >>,
     pendingLightFlushTimer |-> FALSE,
     \* the callbacks of setTimeout that are scheduled and have not run
     scheduledFlushes |-> 0]

\* map.get(key) of a Map held as the sequence of its entries
MapGet(entries, key) ==
    LET found == {i \in 1..Len(entries) : entries[i].key = key}
    IN IF found = {} THEN None ELSE Some(entries[CHOOSE i \in found : TRUE].value)

\* a Map without order, held as a function: map.set(key, value)
Put(map, key, value) == [k \in DOMAIN map \cup {key} |-> IF k = key THEN value ELSE map[k]]

lightStateTopic(fixtureId) == << "light/", fixtureId, "/state" >>

\* a payload that is a plain string, and JSON.stringify(value)
Text(string) == [text |-> string]
Json(value) == [json |-> value]
\* String(number)
Decimal(number) == [decimal |-> number]

\* topics below the base topic of the target, held as their parts
availabilityTopic == << "availability" >>
controlTopic(name) == << "control/", name >>
lightCommandTopic(fixtureId) == << "light/", fixtureId, "/set" >>
programPressTopic(programId) == << "program/", programId, "/press" >>
\* a topic below {discoveryPrefix}/{component}/{nodeId}
discoveryTopic(component, objectId) == << "homeassistant/", component, objectId, "/config" >>

\* sanitizeId of `${prefix}${id}` for the lower-case prefixes of the bridge
\* and the ids of this model, which start and end with a letter or a digit:
\* lower case, every run of other characters one underscore
sanitizeId(value) ==
    << value[1],
       ("f1" :> "f1" @@ "f2" :> "f2" @@ "f3" :> "f3" @@ "f4" :> "f4" @@ "f5" :> "f5"
        @@ "fade" :> "fade" @@ "once" :> "once" @@ "Fade 2" :> "fade_2")[value[2]] >>

\* clampSpm of a number, None being NaN
clampSpm(value) ==
    IF IsNone(value) THEN 120
    ELSE Max(1, Min(500, Round(Get(value).n, Get(value).d)))

\* runtime.client.publish and runtime.client.subscribe: the calls the client
\* received in the current step
clientPublish(r, topic, payload, retain) ==
    [r EXCEPT !.clientCalls = Append(@, [kind |-> "publish", topic |-> topic,
                                         payload |-> payload, retain |-> retain])]

clientSubscribe(r, topic) ==
    [r EXCEPT !.clientCalls = Append(@, [kind |-> "subscribe", topic |-> topic])]

publish(r, topic, payload, retain) ==
    IF ~r.connected THEN r ELSE clientPublish(r, topic, payload, retain)

publishJson(r, topic, payload) == publish(r, topic, Json(payload), FALSE)

\* syncHomeAssistant, the body of its loop over the ids advertised before
publishRemoval(r, topic) == publish(r, topic, Text(""), TRUE)

publishJsonRetained(r, topic, payload) ==
    IF MapGet(r.retainedPayloadCache, topic) = Some(Json(payload)) THEN r
    ELSE publish([r EXCEPT !.retainedPayloadCache = MapSet(@, topic, Json(payload))],
                 topic, Json(payload), TRUE)

mqttSubscribe(r, topic) ==
    IF \E i \in 1..Len(r.subscriptions) : r.subscriptions[i] = topic THEN r
    ELSE clientSubscribe([r EXCEPT !.subscriptions = Append(@, topic)], topic)

\* the handler of "connect" registered by getRuntime, the client being
\* connected when it runs
RECURSIVE resubscribe(_, _)
resubscribe(r, n) ==
    IF n = 0 THEN r ELSE clientSubscribe(resubscribe(r, n - 1), r.subscriptions[n])

RECURSIVE republish(_, _)
republish(r, n) ==
    IF n = 0 THEN r
    ELSE clientPublish(republish(r, n - 1), r.retainedPayloadCache[n].key,
                       r.retainedPayloadCache[n].value, TRUE)

\* variant: the cache is not published again
onConnect_subscriptionsOnly(r) ==
    publish(resubscribe(r, Len(r.subscriptions)), availabilityTopic, Text("online"), TRUE)

onConnect(r) ==
    Bind(publish(resubscribe(r, Len(r.subscriptions)), availabilityTopic, Text("online"), TRUE),
         LAMBDA r1 : republish(r1, Len(r1.retainedPayloadCache)))

\* syncHomeAssistant: the lights, the first n of them
RECURSIVE syncLights(_, _)
syncLights(r, n) ==
    IF n = 0 THEN r
    ELSE
      Bind(r.lightMetaByFixtureId[n].value, LAMBDA meta :
        publishJsonRetained(
          mqttSubscribe(syncLights(r, n - 1), lightCommandTopic(meta.fixtureId)),
          discoveryTopic("light", sanitizeId(<< "layer_a_", meta.fixtureId >>)),
          [name |-> meta.name,
           command_topic |-> lightCommandTopic(meta.fixtureId),
           state_topic |-> lightStateTopic(meta.fixtureId),
           supported_color_modes |-> supportedColorModes(meta),
           rgb |-> IsSome(meta.rgbFeatureId),
           color_temp |-> IsSome(meta.cctFeatureId),
           min_mireds |-> IF IsSome(meta.cctFeatureId)
                          THEN Some(kelvinToMired(DEFAULT_MAX_KELVIN)) ELSE None,
           max_mireds |-> IF IsSome(meta.cctFeatureId)
                          THEN Some(kelvinToMired(DEFAULT_MIN_KELVIN)) ELSE None]))

\* syncHomeAssistant: the controls of the sequencer, with the fields of their
\* configurations that differ between them
syncControl(r, commandName, component, objectId, name) ==
    publishJsonRetained(mqttSubscribe(r, controlTopic(commandName)),
                        discoveryTopic(component, objectId),
                        [name |-> name, command_topic |-> controlTopic(commandName)])

syncControls(r) ==
    syncControl(syncControl(syncControl(syncControl(r,
      "spm/set", "number", << "spm" >>, "SPM"),
      "play_from_start/press", "button", << "play_from_start" >>, "Play From Start"),
      "pause/press", "button", << "pause" >>, "Pause"),
      "blackout/set", "switch", << "blackout" >>, "Blackout")

\* the first n programs of controls.listPrograms()
RECURSIVE syncPrograms(_, _, _)
syncPrograms(r, listed, n) ==
    IF n = 0 THEN r
    ELSE
      publishJsonRetained(
        mqttSubscribe(syncPrograms(r, listed, n - 1), programPressTopic(listed[n].id)),
        discoveryTopic("button", sanitizeId(<< "program_", listed[n].id >>)),
        [name |-> << "Program ", listed[n].name >>,
         command_topic |-> programPressTopic(listed[n].id)])

\* the first n of the ids advertised before
RECURSIVE syncRemoved(_, _, _)
syncRemoved(r, listed, n) ==
    IF n = 0 THEN r
    ELSE IF \E i \in 1..Len(listed) : listed[i].id = r.discoveredProgramIds[n]
    THEN syncRemoved(r, listed, n - 1)
    ELSE publishRemoval(syncRemoved(r, listed, n - 1),
                        discoveryTopic("button",
                                       sanitizeId(<< "program_", r.discoveredProgramIds[n] >>)))

\* new Set of the ids of the programs, in the order of their first addition
RECURSIVE ProgramIds(_, _)
ProgramIds(listed, n) ==
    IF n = 0 THEN << >>
    ELSE IF \E i \in 1..(n - 1) : listed[i].id = listed[n].id THEN ProgramIds(listed, n - 1)
    ELSE Append(ProgramIds(listed, n - 1), listed[n].id)

publishControlStates(r, playhead) ==
    publish(publish(r, controlTopic("blackout/state"),
                    Text(IF playhead.isBlackout THEN "ON" ELSE "OFF"), TRUE),
            controlTopic("spm/state"),
            Decimal(clampSpm(IF playhead.spm = NaN THEN None ELSE Some(Frac(playhead.spm, 1)))),
            TRUE)

syncHomeAssistant(r, listed, playhead) ==
    Bind(syncPrograms(syncControls(syncLights(r, Len(r.lightMetaByFixtureId))),
                      listed, Len(listed)), LAMBDA r1 :
    Bind(syncRemoved(r1, listed, Len(r1.discoveredProgramIds)), LAMBDA r2 :
      publishControlStates(
        publish([r2 EXCEPT !.discoveredProgramIds = ProgramIds(listed, Len(listed))],
                availabilityTopic, Text("online"), TRUE),
        playhead)))

publishLegacyPayload(r, target, renderPacket) ==
    IF IsNone(target.topic) THEN r
    ELSE publishJson(r, << Get(target.topic) >>,
                     [state |-> renderPacket.frame.state,
                      layerAValues |-> renderPacket.frame.layerAValues])


\* the state buildLightOperations starts from when the fixture has none
defaultLightState(meta) ==
    [mode |-> IF IsSome(meta.rgbFeatureId) THEN "rgb"
              ELSE IF IsSome(meta.cctFeatureId) THEN "color_temp"
              ELSE "brightness",
     brightness |-> 255, baseRgb |-> << 255, 255, 255 >>, baseCct |-> << 255, 255 >>]

\* the operations of a light whose state, after the command, is `previous`
operationsByMode(meta, previous) ==
    IF previous.mode = "rgb" /\ IsSome(meta.rgbFeatureId)
    THEN << SetOp(meta.fixtureId, Get(meta.rgbFeatureId),
                  Array(normalizeRgb(Whole(scaleValues(previous.baseRgb,
                                                       previous.brightness))))) >>
         \o (IF IsSome(meta.cctFeatureId)
             THEN << ClearFeatureOp(meta.fixtureId, Get(meta.cctFeatureId)) >> ELSE << >>)
         \o (IF IsSome(meta.dimmerFeatureId)
             THEN << ClearFeatureOp(meta.fixtureId, Get(meta.dimmerFeatureId)) >> ELSE << >>)
    ELSE IF previous.mode = "color_temp" /\ IsSome(meta.cctFeatureId)
    THEN << SetOp(meta.fixtureId, Get(meta.cctFeatureId),
                  Array(normalizeCct(Whole(scaleValues(previous.baseCct,
                                                       previous.brightness))))) >>
         \o (IF IsSome(meta.rgbFeatureId)
             THEN << ClearFeatureOp(meta.fixtureId, Get(meta.rgbFeatureId)) >> ELSE << >>)
         \o (IF IsSome(meta.dimmerFeatureId)
             THEN << ClearFeatureOp(meta.fixtureId, Get(meta.dimmerFeatureId)) >> ELSE << >>)
    ELSE IF IsSome(meta.dimmerFeatureId)
    THEN << SetOp(meta.fixtureId, Get(meta.dimmerFeatureId), Scalar(previous.brightness)) >>
    ELSE IF IsSome(meta.cctFeatureId)
    THEN << SetOp(meta.fixtureId, Get(meta.cctFeatureId),
                  Array(normalizeCct(Whole(scaleValues(previous.baseCct,
                                                       previous.brightness))))) >>
    ELSE IF IsSome(meta.rgbFeatureId)
    THEN << SetOp(meta.fixtureId, Get(meta.rgbFeatureId),
                  Array(normalizeRgb(Whole(scaleValues(previous.baseRgb,
                                                       previous.brightness))))) >>
    ELSE << >>

\* the runtime after the call and the operations it returns. A command is the
\* parsed JSON object: state is parseOnOff(payload.state), and a field the
\* object lacks is None
buildLightOperations(r, fixtureId, payload) ==
    Bind(MapGet(r.lightMetaByFixtureId, fixtureId), LAMBDA meta :
      IF IsNone(meta) THEN [runtime |-> r, operations |-> << >>]
      ELSE IF payload.state = Some(FALSE)
      THEN [runtime |-> IF fixtureId \in DOMAIN r.lightStateByFixtureId
                        THEN [r EXCEPT !.lightStateByFixtureId[fixtureId].brightness = 0]
                        ELSE r,
            operations |-> << ClearFixtureOp(fixtureId) >>]
      ELSE
        Bind(IF fixtureId \in DOMAIN r.lightStateByFixtureId
             THEN r.lightStateByFixtureId[fixtureId]
             ELSE defaultLightState(Get(meta)), LAMBDA previous :
        Bind(IsSome(Get(meta).rgbFeatureId) /\ IsSome(payload.color), LAMBDA hasColor :
        Bind(/\ IsSome(Get(meta).cctFeatureId)
             /\ IsSome(payload.color_temp)
             /\ Get(payload.color_temp) > 0, LAMBDA hasColorTemp :
        Bind([previous EXCEPT
                !.brightness = IF IsSome(payload.brightness)
                               THEN clampByte(Frac(Get(payload.brightness), 1))
                               ELSE IF payload.state = Some(TRUE)
                               THEN (IF @ # 0 THEN @ ELSE 255)
                               ELSE @,
                !.baseRgb = IF hasColor THEN normalizeRgb(Whole(Get(payload.color))) ELSE @,
                !.baseCct = IF hasColorTemp
                            THEN cctValuesFromKelvin(miredToKelvin(Get(payload.color_temp)), 255)
                            ELSE @,
                !.mode = IF hasColorTemp THEN "color_temp"
                         ELSE IF hasColor THEN "rgb"
                         ELSE @], LAMBDA next :
        Bind(operationsByMode(Get(meta), next), LAMBDA operations :
          [runtime |-> IF Len(operations) > 0 \/ fixtureId \in DOMAIN r.lightStateByFixtureId
                       THEN [r EXCEPT !.lightStateByFixtureId = Put(@, fixtureId, next)]
                       ELSE r,
           operations |-> operations]))))))

\* variant: a timer is set for every command
scheduleLightBatchFlush_always(r) ==
    [r EXCEPT !.pendingLightFlushTimer = TRUE, !.scheduledFlushes = @ + 1]

scheduleLightBatchFlush(r) ==
    IF r.pendingLightFlushTimer THEN r
    ELSE [r EXCEPT !.pendingLightFlushTimer = TRUE, !.scheduledFlushes = @ + 1]

handleLightCommand(r, fixtureId, payload) ==
    Bind(buildLightOperations(r, fixtureId, payload), LAMBDA built :
      IF Len(built.operations) = 0 THEN built.runtime
      ELSE scheduleLightBatchFlush(
             [built.runtime EXCEPT !.pendingLightOpsByFixture =
                                      MapSet(@, fixtureId, built.operations)]))

\* [...runtime.pendingLightOpsByFixture.values()].flat()
RECURSIVE Flat(_)
Flat(entries) ==
    IF Len(entries) = 0 THEN << >> ELSE Head(entries).value \o Flat(Tail(entries))

\* controls.applyLayerABatch: the sequencer's method
controlsApplyLayerABatch(s, operations) == applyLayerABatch(s, operations)

ControlCall(name, arguments) == [name |-> name, arguments |-> arguments]

\* the callback of the flush timer: the runtime and the sequencer after it,
\* and the calls of the control API it made
flushLightBatch(r, s) ==
    Bind([r EXCEPT !.pendingLightFlushTimer = FALSE, !.scheduledFlushes = @ - 1], LAMBDA r1 :
      IF Len(r1.pendingLightOpsByFixture) = 0
      THEN [runtime |-> r1, sequencer |-> s, controlCalls |-> << >>]
      ELSE Bind(Flat(r1.pendingLightOpsByFixture), LAMBDA operations :
             [runtime |-> [r1 EXCEPT !.pendingLightOpsByFixture = << >>],
              sequencer |-> IF Len(operations) = 0 THEN s
                            ELSE controlsApplyLayerABatch(s, operations),
              controlCalls |-> IF Len(operations) = 0 THEN << >>
                               ELSE << ControlCall("applyLayerABatch", operations) >>]))

\* layerAValues[`${fixtureId}:${featureId}`] ?? fallback
LayerValue(layerValues, fixtureId, featureId, fallback) ==
    IF frameKey(fixtureId, featureId) \in DOMAIN layerValues
    THEN layerValues[frameKey(fixtureId, featureId)]
    ELSE fallback

MaxOf(values) == CHOOSE v \in {values[i] : i \in 1..Len(values)} :
                    \A i \in 1..Len(values) : values[i] <= v

\* rgb.map((value) => (value / brightness) * 255)
Unscaled(values, brightness) ==
    [i \in 1..Len(values) |-> Frac(values[i] * 255, brightness)]

\* one iteration of the loop of publishLightStates: the state stored for the
\* fixture and the payload for its state topic; previous is None when the
\* fixture has no state
publishLightState(meta, previous, layerValues) ==
    Bind(IF IsSome(meta.rgbFeatureId)
         THEN Some(normalizeRgb(Whole(toArray(
                LayerValue(layerValues, meta.fixtureId, Get(meta.rgbFeatureId), << 0, 0, 0 >>)))))
         ELSE None, LAMBDA rgb :
    Bind(IF IsSome(meta.cctFeatureId)
         THEN Some(normalizeCct(Whole(toArray(
                LayerValue(layerValues, meta.fixtureId, Get(meta.cctFeatureId), << 0, 0 >>)))))
         ELSE None, LAMBDA cct :
    Bind(IF IsSome(meta.dimmerFeatureId)
         THEN toArray(LayerValue(layerValues, meta.fixtureId, Get(meta.dimmerFeatureId),
                                 << 0 >>))[1]
         ELSE 0, LAMBDA dimmer :
    Bind(IF IsSome(rgb) THEN MaxOf(Get(rgb)) ELSE 0, LAMBDA brightnessFromRgb :
    Bind(IF IsSome(cct) THEN MaxOf(Get(cct)) ELSE 0, LAMBDA brightnessFromCct :
    Bind(brightnessFromRgb > 0, LAMBDA hasRgb :
    Bind(brightnessFromCct > 0, LAMBDA hasCct :
    Bind(IF hasRgb THEN "rgb"
         ELSE IF hasCct THEN "color_temp"
         ELSE IF IsSome(meta.dimmerFeatureId) THEN "brightness"
         ELSE IF IsSome(previous) THEN Get(previous).mode
         ELSE supportedColorModes(meta)[1], LAMBDA colorMode :
    Bind(clampByte(Frac(
           IF IsSome(meta.dimmerFeatureId) THEN dimmer
           ELSE IF colorMode = "rgb"
           THEN (IF ~hasRgb THEN 0
                 ELSE IF IsSome(previous) /\ Get(previous).mode = "rgb"
                         /\ Get(previous).brightness > 0
                 THEN Get(previous).brightness
                 ELSE brightnessFromRgb)
           ELSE IF colorMode = "color_temp"
           THEN (IF ~hasCct THEN 0
                 ELSE IF IsSome(previous) /\ Get(previous).mode = "color_temp"
                         /\ Get(previous).brightness > 0
                 THEN Get(previous).brightness
                 ELSE brightnessFromCct)
           ELSE Max(dimmer, Max(brightnessFromRgb, brightnessFromCct)), 1)), LAMBDA brightness :
    Bind(IF IsSome(previous) THEN Get(previous)
         ELSE [mode |-> colorMode, brightness |-> 255, baseRgb |-> << 255, 255, 255 >>,
               baseCct |-> << 255, 255 >>], LAMBDA started :
    Bind([started EXCEPT
            !.mode = colorMode,
            !.brightness = brightness,
            !.baseRgb = IF IsSome(rgb) /\ colorMode = "rgb"
                        THEN (IF brightness > 0
                              THEN normalizeRgb(Unscaled(Get(rgb), brightness))
                              ELSE IF IsSome(previous) THEN Get(previous).baseRgb
                              ELSE Get(rgb))
                        ELSE @,
            !.baseCct = IF IsSome(cct) /\ colorMode = "color_temp"
                        THEN (IF brightness > 0
                              THEN normalizeCct(Unscaled(Get(cct), brightness))
                              ELSE IF IsSome(previous) THEN Get(previous).baseCct
                              ELSE Get(cct))
                        ELSE @], LAMBDA nextState :
      [nextState |-> nextState,
       payload |-> [state |-> IF brightness > 0 THEN "ON" ELSE "OFF",
                    brightness |-> brightness,
                    color_mode |-> colorMode,
                    color |-> IF IsSome(meta.rgbFeatureId) /\ colorMode = "rgb"
                              THEN Some(normalizeRgb(Whole(nextState.baseRgb)))
                              ELSE None,
                    color_temp |-> IF IsSome(meta.cctFeatureId) /\ colorMode = "color_temp"
                                   THEN Some(kelvinToMired(kelvinFromCct(nextState.baseCct[1],
                                                                         nextState.baseCct[2])))
                                   ELSE None]])))))))))))

\* publishLightStates for the first n light fixtures
RECURSIVE publishLightStatesUpTo(_, _, _)
publishLightStatesUpTo(r, layerValues, n) ==
    IF n = 0 THEN r
    ELSE
      Bind(publishLightStatesUpTo(r, layerValues, n - 1), LAMBDA r1 :
      Bind(r1.lightMetaByFixtureId[n].value, LAMBDA meta :
      Bind(publishLightState(meta,
                      IF meta.fixtureId \in DOMAIN r1.lightStateByFixtureId
                      THEN Some(r1.lightStateByFixtureId[meta.fixtureId]) ELSE None,
                      layerValues), LAMBDA mirrored :
        publishJsonRetained(
          [r1 EXCEPT !.lightStateByFixtureId = Put(@, meta.fixtureId, mirrored.nextState)],
          lightStateTopic(meta.fixtureId), mirrored.payload))))

publishLightStates(r, layerValues) ==
    publishLightStatesUpTo(r, layerValues, Len(r.lightMetaByFixtureId))

\* the enabled MQTT targets of an environment
mqttTargets(environment) ==
    SelectSeq(environment.outputs, LAMBDA output : output.type = "mqtt" /\ output.enabled)

\* the runtime at the start of a step: the client has received no call yet
Heard(r) == [r EXCEPT !.clientCalls = << >>]

\* push(packet) for the first enabled MQTT target of the environment of the
\* packet: the runtime after it
mqttPush(existing, fixtureDefs, listed, renderPacket) ==
    publishLegacyPayload(
      publishLightStates(
        publishControlStates(
          syncHomeAssistant(IF IsSome(existing) THEN Heard(Get(existing))
                            ELSE newRuntime(fixtureDefs, renderPacket.environment),
                            listed, renderPacket.frame.state),
          renderPacket.frame.state),
        renderPacket.frame.layerAValues),
      mqttTargets(renderPacket.environment)[1], renderPacket)

(* Inputs of the MQTT bridge *)

LightFeature(id, kind) == [id |-> id, kind |-> kind]

\* a colour light with white channels, a colour light with a dimmer, a colour
\* light, a dimmer and a fixture that is no light
LightFixtureDefs ==
    << [id |-> "rgbcct", features |-> << LightFeature("rgb", "rgb"), LightFeature("cct", "cct") >>],
       [id |-> "rgbd", features |-> << LightFeature("rgb", "rgb"), LightFeature("dim", "scalar") >>],
       [id |-> "rgb", features |-> << LightFeature("rgb", "rgb") >>],
       [id |-> "dimmer", features |-> << LightFeature("dim", "scalar") >>],
       [id |-> "fan", features |-> << LightFeature("speed", "range") >>] >>

LightFixture(id, fixtureTypeId, mqttExpose) ==
    [id |-> id, name |-> id, fixtureTypeId |-> fixtureTypeId, mqttExpose |-> mqttExpose]

\* an MQTT target with or without a topic for the raw payload, after an
\* output that is none
MqttOutputs(topic) ==
    << [type |-> "artnet", enabled |-> TRUE, topic |-> None],
       [type |-> "mqtt", enabled |-> TRUE, topic |-> topic] >>

LightEnvironments ==
    { [id |-> "home",
       fixtures |-> << LightFixture("f1", "rgbcct", TRUE), LightFixture("f2", "rgbd", TRUE),
                       LightFixture("f3", "rgb", FALSE), LightFixture("f4", "fan", TRUE),
                       LightFixture("f5", "gone", TRUE) >>,
       outputs |-> MqttOutputs(Some("raw"))],
      [id |-> "studio",
       fixtures |-> << LightFixture("f1", "rgb", TRUE), LightFixture("f2", "dimmer", TRUE) >>,
       outputs |-> MqttOutputs(None)] }

LightCommandPayload(onOff, brightness, color, colorTemp) ==
    [state |-> onOff, brightness |-> brightness, color |-> color, color_temp |-> colorTemp]

\* colour with brightness (the first is the round trip the specification
\* gives as its example), off, on, brightness alone, colour temperature
LightCommandPayloads ==
    { LightCommandPayload(Some(TRUE), Some(128), Some(<< 255, 0, 0 >>), None),
      LightCommandPayload(None, Some(201), Some(<< 2, 0, 0 >>), None),
      LightCommandPayload(None, Some(255), Some(<< 0, 0, 0 >>), None),
      LightCommandPayload(Some(FALSE), None, None, None),
      LightCommandPayload(Some(TRUE), None, None, None),
      LightCommandPayload(None, Some(64), None, None),
      LightCommandPayload(None, Some(128), None, Some(250)) }

LightCommandFixtures == {"f1", "f2", "f3"}

\* the programs the store can hold, with their names
StoredProgram(program, id, name) == [name |-> name] @@ [program EXCEPT !.id = id]

StoredPrograms ==
    { StoredProgram(ProgramOnce, "once", "Once"),
      StoredProgram(ProgramFade, "Fade 2", "Fade two") }

\* messages: the topics the bridge subscribes to, a press for a program the
\* store may hold or not, a light topic without fixture and a topic of the
\* bridge itself
CommandTopics ==
    { controlTopic("spm/set"), controlTopic("play_from_start/press"),
      controlTopic("pause/press"), controlTopic("blackout/set"),
      programPressTopic("once"), programPressTopic("fade"), programPressTopic(""),
      lightCommandTopic("f1"), lightCommandTopic("f4"), lightCommandTopic(""),
      lightStateTopic("f1") }

RawPayloads ==
    { "", " 90 ", "700", "true", "abc", "ON", "OFF", "PRESS", "{\"value\":240}",
      "{\"state\":\"OFF\"}", "{\"brightness\":128,\"color\":{\"r\":255,\"g\":0,\"b\":0}}" }

(* Commands of the MQTT bridge.  A parsed payload is a JavaScript value with
   its type: a number (a fraction), a string, a boolean, or an object with
   its fields. *)

NumberValue(n) == [type |-> "number", value |-> Frac(n, 1)]
StringValue(string) == [type |-> "string", value |-> string]
BooleanValue(b) == [type |-> "boolean", value |-> b]
ObjectValue(fields) == [type |-> "object", fields |-> fields]

\* parsePayload of the payloads of this model: the trimmed text, parsed as
\* JSON where it is JSON and kept as text where it is not
parsePayload(rawPayload) ==
    CASE rawPayload = "" -> StringValue("")
      [] rawPayload = " 90 " -> NumberValue(90)
      [] rawPayload = "700" -> NumberValue(700)
      [] rawPayload = "true" -> BooleanValue(TRUE)
      [] rawPayload = "{\"value\":240}" -> ObjectValue([value |-> NumberValue(240)])
      [] rawPayload = "{\"state\":\"OFF\"}" -> ObjectValue([state |-> StringValue("OFF")])
      [] rawPayload = "{\"brightness\":128,\"color\":{\"r\":255,\"g\":0,\"b\":0}}" ->
           ObjectValue([brightness |-> NumberValue(128),
                        color |-> ObjectValue([r |-> NumberValue(255), g |-> NumberValue(0),
                                               b |-> NumberValue(0)])])
      [] OTHER -> StringValue(rawPayload)

\* Number(value), None being NaN; the only string of this model that is a
\* number is the empty one
ToNumber(value) ==
    IF IsNone(value) THEN None
    ELSE IF Get(value).type = "number" THEN Some(Get(value).value)
    ELSE IF Get(value).type = "boolean" THEN Some(Frac(IF Get(value).value THEN 1 ELSE 0, 1))
    ELSE IF Get(value).type = "string" /\ Get(value).value = "" THEN Some(Frac(0, 1))
    ELSE None

\* value.trim().toLowerCase() of the strings of this model
Normalized(string) ==
    CASE string = "ON" -> "on"
      [] string = "OFF" -> "off"
      [] OTHER -> string

\* parseOnOff: None is null
parseOnOff(value) ==
    IF IsNone(value) THEN None
    ELSE IF Get(value).type = "boolean" THEN Some(Get(value).value)
    ELSE IF Get(value).type = "number" THEN Some(Get(value).value.n > 0)
    ELSE IF Get(value).type = "string"
    THEN (IF Normalized(Get(value).value) \in {"on", "true", "1"} THEN Some(TRUE)
          ELSE IF Normalized(Get(value).value) \in {"off", "false", "0"} THEN Some(FALSE)
          ELSE None)
    ELSE None

\* value[name] of a value that may be no object; None is undefined
Field(value, name) ==
    IF value.type = "object" /\ name \in DOMAIN value.fields
    THEN Some(value.fields[name]) ELSE None

\* buildLightOperations, what it reads of the payload: the state, the
\* brightness when it is a finite number, the colour when it has r, g and b,
\* and the colour temperature when it is a finite number
lightPayload(value) ==
    Bind(IF value.type = "object" THEN value ELSE ObjectValue(<< >>), LAMBDA objectPayload :
    Bind(Field(objectPayload, "color"), LAMBDA color :
      LightCommandPayload(
        IF IsSome(parseOnOff(Field(objectPayload, "state")))
        THEN parseOnOff(Field(objectPayload, "state")) ELSE parseOnOff(Some(value)),
        IF IsSome(ToNumber(Field(objectPayload, "brightness")))
        THEN Some(Get(ToNumber(Field(objectPayload, "brightness"))).n) ELSE None,
        IF IsSome(color) /\ Get(color).type = "object"
           /\ {"r", "g", "b"} \subseteq DOMAIN Get(color).fields
        THEN Some(<< Get(ToNumber(Field(Get(color), "r"))).n,
                     Get(ToNumber(Field(Get(color), "g"))).n,
                     Get(ToNumber(Field(Get(color), "b"))).n >>)
        ELSE None,
        IF IsSome(ToNumber(Field(objectPayload, "color_temp")))
        THEN Some(Get(ToNumber(Field(objectPayload, "color_temp"))).n) ELSE None)))

\* the control API the application hands to the bridge: the call on the
\* sequencer
controlsCall(s, listed, call) ==
    IF call.name = "setSpm" THEN setSpm(s, call.arguments[1])
    ELSE IF call.name = "playFromStart" THEN resume(setStep(s, 0))
    ELSE IF call.name = "pause" THEN pause(s)
    ELSE IF call.name = "setBlackout" THEN setBlackout(s, call.arguments[1])
    ELSE IF call.name = "triggerProgram"
    THEN Bind(SelectSeq(listed, LAMBDA program : program.id = call.arguments[1]),
              LAMBDA found :
           IF Len(found) = 0 THEN s
           ELSE resume(setStep(setProgram(IF s.state.isPlaying THEN s
                                          ELSE setSpm(s, found[1].spm),
                                          found[1],
                                          [preservePlayhead |-> FALSE, suppressEmit |-> FALSE]),
                               0)))
    ELSE s

\* handleCommand without its last branch: the call of the control API the
\* message leads to, if any
commandCall(topic, payload) ==
    IF topic = controlTopic("spm/set")
    THEN Some(ControlCall("setSpm",
                  << clampSpm(ToNumber(IF IsSome(Field(payload, "value"))
                                       THEN Field(payload, "value") ELSE Some(payload))) >>))
    ELSE IF topic = controlTopic("play_from_start/press")
    THEN Some(ControlCall("playFromStart", << >>))
    ELSE IF topic = controlTopic("pause/press") THEN Some(ControlCall("pause", << >>))
    ELSE IF topic = controlTopic("blackout/set")
    THEN Bind(IF IsSome(parseOnOff(Some(payload))) THEN parseOnOff(Some(payload))
              ELSE parseOnOff(Field(payload, "state")), LAMBDA flag :
           IF IsSome(flag) THEN Some(ControlCall("setBlackout", << Get(flag) >>)) ELSE None)
    ELSE IF Len(topic) = 3 /\ topic[1] = "program/" /\ topic[3] = "/press" /\ topic[2] # ""
    THEN Some(ControlCall("triggerProgram", << topic[2] >>))
    ELSE None

isControlTopic(topic) ==
    \/ topic \in {controlTopic("spm/set"), controlTopic("play_from_start/press"),
                  controlTopic("pause/press"), controlTopic("blackout/set")}
    \/ Len(topic) = 3 /\ topic[1] = "program/" /\ topic[3] = "/press"

\* the handler of "message": the runtime and the sequencer after it, and the
\* calls of the control API it made
handleCommand(r, s, listed, topic, rawPayload) ==
    Bind(parsePayload(rawPayload), LAMBDA payload :
    Bind(commandCall(topic, payload), LAMBDA call :
      IF IsSome(call)
      THEN [runtime |-> r, sequencer |-> controlsCall(s, listed, Get(call)),
            controlCalls |-> << Get(call) >>]
      ELSE IF isControlTopic(topic)
      THEN [runtime |-> r, sequencer |-> s, controlCalls |-> << >>]
      ELSE IF Len(topic) = 3 /\ topic[1] = "light/" /\ topic[3] = "/set" /\ topic[2] # ""
      THEN [runtime |-> handleLightCommand(r, topic[2], lightPayload(payload)),
            sequencer |-> s, controlCalls |-> << >>]
      ELSE [runtime |-> r, sequencer |-> s, controlCalls |-> << >>]))

(* The state machine of the MQTT bridge *)

\* the runtime after a step, and the retained messages the client received
\* in it
RECURSIVE Received(_, _, _)
Received(held, clientCalls, n) ==
    IF n = 0 THEN held
    ELSE IF clientCalls[n].kind = "publish" /\ clientCalls[n].retain
    THEN Put(Received(held, clientCalls, n - 1) , clientCalls[n].topic, clientCalls[n].payload)
    ELSE Received(held, clientCalls, n - 1)

CommitRuntime(r) ==
    /\ runtime' = Some(r)
    /\ lastPublished' = Received(lastPublished, r.clientCalls, Len(r.clientCalls))

\* the renderer pushes the packet of a frame of the sequencer
MqttPush == \E environment \in LightEnvironments :
    /\ IsSome(runtime) => Get(runtime).environmentId = environment.id
    /\ Len(mqttTargets(environment)) > 0
    /\ CommitRuntime(mqttPush(runtime, LightFixtureDefs, programs,
                              [environment |-> environment,
                               frame |-> [state |-> state, layerAValues |-> layerAValues]]))
    /\ commanded' = IF IsSome(commanded) /\ Get(commanded).stage = "applied"
                    THEN Some([Get(commanded) EXCEPT !.stage = "mirrored"])
                    ELSE IF IsSome(commanded) /\ Get(commanded).stage = "mirrored"
                    THEN None
                    ELSE commanded
    /\ controlCalls' = << >>
    /\ UNCHANGED << sequencerVars, renderVars, artDmxVars, artnetVars, lightCommands,
                    queuedRef, programs >>

\* a message on the command topic of a light, to which the first push subscribes
LightCommand == \E fixtureId \in LightCommandFixtures, payload \in LightCommandPayloads :
    /\ IsSome(runtime)
    /\ lightCommands < MaxLightCommands
    /\ lightCommands' = lightCommands + 1
    /\ CommitRuntime(handleLightCommand(Heard(Get(runtime)), fixtureId, payload))
    /\ commanded' = IF /\ IsSome(payload.color)
                       /\ IsSome(payload.brightness)
                       /\ Len(buildLightOperations(Get(runtime), fixtureId, payload).operations) > 0
                    THEN Some([fixtureId |-> fixtureId, color |-> Get(payload.color),
                               brightness |-> Get(payload.brightness), stage |-> "queued"])
                    ELSE IF IsSome(commanded) /\ Get(commanded).fixtureId = fixtureId
                    THEN None
                    ELSE commanded
    /\ controlCalls' = << >>
    /\ queuedRef' = IF Len(buildLightOperations(Get(runtime), fixtureId, payload).operations) > 0
                    THEN Put(queuedRef, fixtureId,
                             buildLightOperations(Get(runtime), fixtureId, payload).operations)
                    ELSE queuedRef
    /\ UNCHANGED << sequencerVars, renderVars, artDmxVars, artnetVars, programs >>

\* a callback of the flush timer of the light commands runs
FlushLightBatch ==
    /\ IsSome(runtime)
    /\ Get(runtime).scheduledFlushes > 0
    /\ LET flushed == flushLightBatch(Heard(Get(runtime)), self)
       IN /\ CommitRuntime(flushed.runtime)
          /\ controlCalls' = flushed.controlCalls
          /\ CommitSequencer(flushed.sequencer)
          /\ LayerAEdited(flushed.sequencer, Flat(Get(runtime).pendingLightOpsByFixture), TRUE)
    /\ commanded' = IF IsSome(commanded) /\ Get(commanded).stage = "queued"
                    THEN Some([Get(commanded) EXCEPT !.stage = "applied"])
                    ELSE commanded
    /\ queuedRef' = << >>
    /\ UNCHANGED << calls, renderVars, artDmxVars, artnetVars, lightCommands, programs >>

MqttNext == MqttPush \/ LightCommand \/ FlushLightBatch

MqttSpec == Init /\ [][MqttNext]_vars

-----------------------------------------------------------------------------
(* The MQTT bridge and its broker: messages of every kind on the topics of   *)
(* the bridge                                                                *)

\* the client hands a message to the handler of "message"
Message(topic, rawPayload) ==
    /\ IsSome(runtime)
    /\ lightCommands < MaxLightCommands
    /\ lightCommands' = lightCommands + 1
    /\ LET handled == handleCommand(Heard(Get(runtime)), self, programs, topic, rawPayload)
       IN /\ CommitRuntime(handled.runtime)
          /\ controlCalls' = handled.controlCalls
          /\ IF Len(handled.controlCalls) = 0
             THEN UNCHANGED << sequencerVars, queuedRef >>
             ELSE /\ CommitSequencer(handled.sequencer)
                  /\ owed' = FALSE
                  /\ UNCHANGED << lastWrite, calls, queuedRef >>
    /\ UNCHANGED << renderVars, artDmxVars, artnetVars, commanded, programs >>

Command == \E topic \in CommandTopics, rawPayload \in RawPayloads : Message(topic, rawPayload)

CommandNext == MqttPush \/ Command \/ FlushLightBatch

CommandSpec == Init /\ [][CommandNext]_vars

-----------------------------------------------------------------------------
(* The MQTT bridge, its connection and the program store *)

\* the client connects and emits "connect"
Connect ==
    /\ IsSome(runtime)
    /\ ~Get(runtime).connected
    /\ CommitRuntime(onConnect([Heard(Get(runtime)) EXCEPT !.connected = TRUE]))
    /\ controlCalls' = << >>
    /\ UNCHANGED << sequencerVars, renderVars, artDmxVars, artnetVars, lightCommands,
                    commanded, queuedRef, programs >>

\* the connection is lost; the handler of "close" changes nothing
Close ==
    /\ IsSome(runtime)
    /\ Get(runtime).connected
    /\ CommitRuntime([Heard(Get(runtime)) EXCEPT !.connected = FALSE])
    /\ controlCalls' = << >>
    /\ UNCHANGED << sequencerVars, renderVars, artDmxVars, artnetVars, lightCommands,
                    commanded, queuedRef, programs >>

\* the editor adds a program to the store, or removes one
AddProgram == \E program \in StoredPrograms :
    /\ \A i \in 1..Len(programs) : programs[i].id # program.id
    /\ programs' = Append(programs, program)
    /\ UNCHANGED << sequencerVars, renderVars, artDmxVars, artnetVars, runtime, lightCommands,
                    commanded, controlCalls, queuedRef, lastPublished >>

RemoveProgram == \E i \in 1..Len(programs) :
    /\ programs' = RemoveAt(programs, i)
    /\ UNCHANGED << sequencerVars, renderVars, artDmxVars, artnetVars, runtime, lightCommands,
                    commanded, controlCalls, queuedRef, lastPublished >>

DiscoveryNext == MqttPush \/ Connect \/ Close \/ AddProgram \/ RemoveProgram

DiscoverySpec == Init /\ [][DiscoveryNext]_vars

-----------------------------------------------------------------------------
(* The MQTT bridge with a client that connects after the first push and     *)
(* stays connected, the store changing only after that                      *)

Online == IsSome(runtime) /\ Get(runtime).connected

AddProgramOnline == Online /\ AddProgram

RemoveProgramOnline == Online /\ RemoveProgram

OnlineNext == MqttPush \/ Connect \/ AddProgramOnline \/ RemoveProgramOnline

OnlineSpec == Init /\ [][OnlineNext]_vars

-----------------------------------------------------------------------------
(* Properties *)

steps == IF IsNone(activeProgram) THEN << >> ELSE Get(activeProgram).steps

\* C1: in every reachable state the sequencer tick timer and the mix timer
\* are never both running
C1_TimersExclusive == ~(IsSome(timer) /\ IsSome(mixTimer))

\* a cross-fade is pending while the sequence plays: the tick timer runs and
\* the mix timer does not
C1_Witness ==
    /\ IsSome(timer)
    /\ IsNone(mixTimer)
    /\ IsSome(mixTransition)
    /\ state.isPlaying

\* C2 as the specification words it: every frame handed to the listeners
\* while isBlackout is true has an empty visible values map
C2_BlackoutValuesEmpty ==
    \A i \in 1..Len(emitted) :
        emitted[i].frame.state.isBlackout => emitted[i].frame.values = << >>

Changed == state' # state \/ layerAValues' # layerAValues

\* the call handed exactly one frame to every subscribed listener, and the
\* frame shows the state and layer A as the call left them
EmittedOnce ==
    /\ Len(emitted') = 1
    /\ emitted'[1].to = listeners'
    /\ emitted'[1].frame.state = state'
    /\ emitted'[1].frame.layerAValues = layerAValues'

\* setProgram called with suppressEmit
SuppressedSetProgram ==
    \E program \in Programs, options \in SetProgramOptions :
        options.suppressEmit /\ SetProgramCall(program, options)

\* C4 as the specification words it: every operation that changes the
\* playhead state or layer A, setProgram included, notifies every subscribed
\* listener exactly once with a frame that reflects the state after it.  (The
\* playhead state and layer A are changed by the listed operations and by
\* nothing else, so the property is stated of every step that changes them.)
C4_EveryMutationEmitsOnce == [][Changed => EmittedOnce]_vars

\* C4: every operation that changes the playhead state or layer A notifies
\* every subscribed listener exactly once with a frame that reflects the state
\* after it, except setProgram called with suppressEmit, which notifies nobody
C4_MutationEmitsOnceUnlessSuppressed ==
    [][/\ Changed => (EmittedOnce \/ SuppressedSetProgram)
       /\ SuppressedSetProgram => emitted' = << >>]_vars

\* a call has changed the step under a subscribed listener, which was handed
\* one frame showing the new step
C4_Witness ==
    /\ listeners # {}
    /\ Len(emitted) = 1
    /\ emitted[1].to = listeners
    /\ emitted[1].frame.state = state
    /\ state.stepIndex = 1
    /\ state.isPlaying

\* none of the operations, applied in turn to the store m, changes it
RECURSIVE NoOperationChanges(_, _)
NoOperationChanges(m, operations) ==
    \/ Len(operations) = 0
    \/ /\ RefWrite(m, Head(operations)) = m
       /\ NoOperationChanges(m, Tail(operations))

\* C5: one call of applyLayerABatch emits at most one frame and starts at
\* most one cross-fade, whose 'from' values are the visible values before the
\* first operation of the batch; a batch none of whose operations changes
\* layer A emits no frame and starts no cross-fade
C5_BatchEmitsAndFadesOnce ==
    [][\A operations \in Batches :
          ApplyLayerABatchCall(operations) =>
              /\ Len(emitted') <= 1
              /\ begun' <= 1
              /\ begun' = 1 =>
                    /\ IsSome(mixTransition')
                    /\ Get(mixTransition').fromValues = buildFrame(self).frame.values
              /\ NoOperationChanges(layerAValues, operations) =>
                    /\ emitted' = << >>
                    /\ begun' = 0]_vars

\* the second call was a batch of two operations that both changed layer A
\* (f1:rgb set, f1:dim cleared): one frame, one cross-fade from the values
\* visible before it
C5_Witness ==
    /\ calls = 2
    /\ layerAValues = (frameKey("f1", "rgb") :> << 10, 20, 30 >>)
    /\ IsSome(mixTransition)
    /\ Get(mixTransition).fromValues = (frameKey("f1", "dim") :> << 255 >>)
    /\ begun = 1
    /\ Len(emitted) = 1

ByteVectors(values) ==
    \A key \in DOMAIN values :
        /\ \E i \in 1..Len(values[key]) : values[key][i] # 0
        /\ \A i \in 1..Len(values[key]) : values[key][i] \in 0..255

\* C7 as the specification words it: in every reachable state no key of
\* layer A maps to an all-zero vector and every stored element is an integer
\* in [0,255]; the same holds for the layerBValues and values maps of every
\* emitted frame
C7_ByteVectorsEverywhere ==
    /\ ByteVectors(layerAValues)
    /\ \A i \in 1..Len(emitted) :
          /\ ByteVectors(emitted[i].frame.layerBValues)
          /\ ByteVectors(emitted[i].frame.values)

\* the ratio min(1, max(0, p/d)) while playing with d > 0, else 1
ExpectedRatio(playhead, d) ==
    IF ~playhead.isPlaying \/ d <= 0 THEN Frac(1, 1)
    ELSE IF playhead.positionMs <= 0 THEN Frac(0, 1)
    ELSE IF playhead.positionMs >= d THEN Frac(1, 1)
    ELSE Frac(playhead.positionMs, d)

\* the channels a step gives a key: the value of its frame, or [0]
ChannelsOf(step, key) ==
    LET hits == {n \in 1..Len(step.frames) :
                    frameKey(step.frames[n].fixtureId, step.frames[n].featureId) = key}
    IN IF hits = {} THEN << 0 >>
       ELSE LET value == step.frames[CHOOSE n \in hits : \A m \in hits : m <= n].value
            IN IF value.isArray THEN value.v ELSE << value.v >>

KeysOf(step) ==
    {frameKey(step.frames[n].fixtureId, step.frames[n].featureId) : n \in 1..Len(step.frames)}

\* round(prev + (curr - prev) * r) per channel, all-zero vectors left out
ExpectedLayerB(playhead, prev, curr) ==
    LET r == ExpectedRatio(playhead, curr.fadeMs)
        channel(vec, i) == IF i <= Len(vec) THEN vec[i] ELSE 0
        mixed(key) ==
            LET from == ChannelsOf(prev, key)
                to == ChannelsOf(curr, key)
            IN [i \in 1..Max(Len(from), Len(to)) |->
                   Round(channel(from, i) * r.d + (channel(to, i) - channel(from, i)) * r.n,
                         r.d)]
    IN [key \in {k \in KeysOf(prev) \cup KeysOf(curr) :
                    \E i \in 1..Len(mixed(k)) : mixed(k)[i] > 0} |-> mixed(key)]

\* the step before step i: i - 1, or the last step when i = 0 and the program
\* loops and is not playing from its very start, else step 0 itself
PreviousOf(playhead, program) ==
    IF playhead.stepIndex > 0 THEN program.steps[playhead.stepIndex]
    ELSE IF playhead.loop /\ ~(playhead.isPlaying /\ playhead.positionMs <= 0)
         THEN program.steps[Len(program.steps)]
         ELSE program.steps[1]

\* C8: without blackout, layer B of every emitted frame holds, for each key
\* of the previous or the current step, round(prev + (curr - prev) * r) per
\* channel, a missing key or channel counting as 0 and all-zero vectors being
\* left out, where r = min(1, max(0, p/d)) while playing with fadeMs d > 0
\* and r = 1 when paused or when fadeMs = 0
C8_LayerBInterpolates ==
    \A i \in 1..Len(emitted) :
        LET playhead == emitted[i].frame.state
        IN (IsSome(activeProgram) /\ Len(steps) > 0 /\ ~playhead.isBlackout) =>
               emitted[i].frame.layerBValues =
                   ExpectedLayerB(playhead, PreviousOf(playhead, Get(activeProgram)),
                                  steps[playhead.stepIndex + 1])

\* the example of the specification: playing, on step 1 at 250 ms of a
\* 500 ms fade from [255,0,0] to [0,0,255], layer B is [128,0,128]
C8_Witness ==
    /\ Len(emitted) = 1
    /\ emitted[1].frame.state.isPlaying
    /\ emitted[1].frame.state.stepIndex = 1
    /\ emitted[1].frame.state.positionMs = 250
    /\ steps[2].fadeMs = 500
    /\ emitted[1].frame.layerBValues = (frameKey("f1", "rgb") :> << 128, 0, 128 >>)

\* C9 as the specification words it, in the form a finite behaviour can
\* refute: while the final frame of a static-mode layer-A edit is still owed
\* to a subscribed listener (no mutating call since, only getState/getFrame
\* and mix ticks), a timer is running that will deliver it
C9_OwedFrameHasTimer ==
    (owed /\ listeners # {}) => (IsSome(mixTimer) \/ IsSome(timer))

\* C10 as the specification words it, for a cross-fade towards the static
\* mode, the mode that is visible while isPlaying is false: after every public
\* operation, if such a cross-fade is pending and isPlaying is false then the
\* mix timer is running
C10_PendingFadeHasMixTimer ==
    (/\ IsSome(mixTransition)
     /\ Get(mixTransition).toMode = "static"
     /\ ~state.isPlaying) => IsSome(mixTimer)

\* C11: when play() is called while not playing and a program with at least
\* one step is active, the listeners are handed, before play() returns, a frame
\* with isPlaying = true, stepIndex = 0 and positionMs = 0, and the tick timer
\* is running afterwards
C11_PlayEmitsStartFrame ==
    [][(/\ Play
        /\ ~state.isPlaying
        /\ IsSome(activeProgram)
        /\ Len(steps) >= 1)
       => (/\ IsSome(timer')
           /\ \E i \in 1..Len(emitted') :
                /\ emitted'[i].to = listeners
                /\ emitted'[i].frame.state.isPlaying
                /\ emitted'[i].frame.state.stepIndex = 0
                /\ emitted'[i].frame.state.positionMs = 0)]_vars

\* a subscribed listener holds the start frame of a program that has just
\* been started: the cross-fade towards the sequencer begins now and the tick
\* timer runs
C11_Witness ==
    /\ listeners # {}
    /\ Len(steps) >= 1
    /\ state.isPlaying
    /\ state.stepIndex = 0
    /\ state.positionMs = 0
    /\ IsSome(timer)
    /\ IsSome(mixTransition)
    /\ Get(mixTransition).toMode = "sequencer"
    /\ Get(mixTransition).startedAtMs = now
    /\ Len(emitted) = 1
    /\ emitted[1].to = listeners
    /\ emitted[1].frame.state.isPlaying
    /\ emitted[1].frame.state.stepIndex = 0
    /\ emitted[1].frame.state.positionMs = 0

\* C12: for a looping program at constant spm whose steps all have
\* durationMs = 500, after play() and ticks whose clamped elapsed times sum to
\* T ms, the playhead is at stepIndex = floor(T / (60000 / spm)) mod stepCount
\* with positionMs = T mod (60000 / spm), and isPlaying is still true. The
\* position is compared to within one millisecond: T mod (60000 / spm) need not
\* be a number a double can hold
C12_PlayheadFollowsElapsed ==
    (/\ IsSome(timer)
     /\ IsSome(activeProgram)
     /\ Get(activeProgram).id = "loop")
    => (/\ state.isPlaying
        /\ state.stepIndex = ((ticked * state.spm) \div 60000) % Len(steps)
        /\ state.positionMs * state.spm <= (ticked * state.spm) % 60000
        /\ (ticked * state.spm) % 60000 < (state.positionMs + 1) * state.spm)

\* the case C12 gives: four steps at spm = 120 are back on stepIndex 0 once
\* the ticks have added 2000 ms, some of them after more than 1000 ms
C12_LoopCompletes ==
    /\ IsSome(timer)
    /\ Get(activeProgram).id = "loop"
    /\ state.spm = 120
    /\ ticked = 2000
    /\ now > 2000
    /\ state.isPlaying
    /\ state.stepIndex = 0
    /\ state.positionMs = 0

\* the fixtures of an environment whose fixture type is in the configuration
TypedFixtures(environment) ==
    {n \in 1..Len(environment.fixtures) :
        IsSome(MapGetById(RenderConfig.fixtures, environment.fixtures[n].fixtureTypeId))}

\* the channels the features of the typed fixtures model: fixture n, its
\* feature, the index i into the channels of the feature, and its DMX address
ModeledChannels(environment) ==
    UNION {
      LET fixture == environment.fixtures[n]
          fixtureDef == Get(MapGetById(RenderConfig.fixtures, fixture.fixtureTypeId))
      IN UNION {{[fixture |-> fixture, feature |-> fixtureDef.features[g], i |-> i,
                  dmxAddress |-> fixture.address + fixtureDef.features[g].channels[i] - 1] :
                    i \in 1..Len(fixtureDef.features[g].channels)} :
                 g \in 1..Len(fixtureDef.features)}
      : n \in TypedFixtures(environment)}

\* the clamped and range-mapped value of raw: clamped to 0..255, then scaled
\* into a range 0..max below 255 or else clamped to the range
ExpectedDmx(feature, raw) ==
    LET clamped == Max(0, Min(255, raw))
        lo == IF IsSome(feature.range) THEN Get(feature.range).min ELSE 0
        hi == IF IsSome(feature.range) THEN Get(feature.range).max ELSE 255
    IN IF lo = 0 /\ 0 < hi /\ hi < 255 THEN Round(clamped * hi, 255)
       ELSE Max(lo, Min(hi, clamped))

\* 0 when the frame has no entry for the feature owning the channel, its
\* clamped and range-mapped value otherwise
ExpectedByte(entries, channel) ==
    LET owning == {e \in 1..Len(entries) :
                     entries[e].key = frameKey(channel.fixture.id, channel.feature.id)}
    IN IF owning = {} THEN 0
       ELSE ExpectedDmx(channel.feature,
                        ElementOrFirst(entries[CHOOSE e \in owning : TRUE].values, channel.i))

\* every modeled channel inside the universe holds its expected byte
ModeledBytesAsExpected ==
    \A channel \in ModeledChannels(Get(packet).environment) :
        channel.dmxAddress \in 1..UNIVERSE_SIZE =>
            /\ channel.fixture.universe \in DOMAIN Get(packet).dmxByUniverse
            /\ Get(packet).dmxByUniverse[channel.fixture.universe][channel.dmxAddress]
                 = ExpectedByte(Get(renderInput).frame.entries, channel)

\* no two modeled channels of the environment have the same universe and address
DistinctAddresses(environment) ==
    \A c1, c2 \in ModeledChannels(environment) :
        (c1.fixture.universe = c2.fixture.universe /\ c1.dmxAddress = c2.dmxAddress)
            => c1 = c2

\* C13 as the specification words it: for every environment E and frame F,
\* buildRenderPacket returns exactly one buffer per universe referenced by E's
\* fixtures, each of 512 bytes, and the byte of every modeled channel of every
\* fixture is 0 when F has no entry for the feature owning the channel and the
\* clamped and range-mapped value of the entry otherwise
C13_OneBufferPerUniverse ==
    IsSome(packet) =>
        /\ DOMAIN Get(packet).dmxByUniverse =
              {Get(packet).environment.fixtures[n].universe :
                  n \in 1..Len(Get(packet).environment.fixtures)}
        /\ \A u \in DOMAIN Get(packet).dmxByUniverse :
              Len(Get(packet).dmxByUniverse[u]) = 512
        /\ ModeledBytesAsExpected

\* C13: for every environment E and frame F, buildRenderPacket returns exactly
\* one buffer per universe referenced by those of E's fixtures whose fixture
\* type is in the configuration, each of 512 bytes between 0 and 255; when no
\* two modeled channels of E share an address, the byte of every modeled
\* channel is 0 when F has no entry for the feature owning the channel and the
\* clamped and range-mapped value of the entry otherwise. The packet is the one
\* the builder returns for its arguments alone, whatever it returned before
C13_OneBufferPerTypedUniverse ==
    IsSome(packet) =>
        /\ DOMAIN Get(packet).dmxByUniverse =
              {Get(packet).environment.fixtures[n].universe :
                  n \in TypedFixtures(Get(packet).environment)}
        /\ \A u \in DOMAIN Get(packet).dmxByUniverse :
              /\ Len(Get(packet).dmxByUniverse[u]) = 512
              /\ \A a \in 1..512 : Get(packet).dmxByUniverse[u][a] \in 0..255
        /\ DistinctAddresses(Get(packet).environment) => ModeledBytesAsExpected

\* a dimmer at 128 has been rendered into its range 0..100 on channel 4 of
\* universe 0, the colour channels without an entry are 0, and universe 1,
\* whose fixture has no entry, has its buffer
C13_Witness ==
    /\ IsSome(packet)
    /\ Get(renderInput).environmentId = "two"
    /\ Get(renderInput).frame.entries = << Entry("f1", "dim", << 128 >>) >>
    /\ DOMAIN Get(packet).dmxByUniverse = {0, 1}
    /\ Get(packet).dmxByUniverse[0][4] = 50
    /\ Get(packet).dmxByUniverse[0][1] = 0
    /\ Get(packet).dmxByUniverse[1][512] = 0

\* the two bytes of a 16-bit value, low byte first
LittleEndian(value) == << value % 256, value \div 256 >>

\* the two bytes of a 16-bit value, high byte first
BigEndian(value) == << value \div 256, value % 256 >>

\* C19: for every universe u and DMX payload of length N, the datagram built
\* is 18 + N bytes: ASCII "Art-Net" plus NUL, OpCode 0x5000 little-endian,
\* ProtVer 14 big-endian, sequence 0, physical 0, u & 0x7FFF little-endian at
\* offset 14, N big-endian at offset 16, then the payload unchanged
C19_ArtDmxLayout ==
    IsSome(artDmxInput) =>
        /\ Len(artDmxPacket) = 18 + Len(Get(artDmxInput).dmx)
        /\ SubSeq(artDmxPacket, 1, 8) = << 65, 114, 116, 45, 78, 101, 116, 0 >>
        /\ SubSeq(artDmxPacket, 9, 10) = << 0, 80 >>
        /\ SubSeq(artDmxPacket, 11, 12) = << 0, 14 >>
        /\ artDmxPacket[13] = 0
        /\ artDmxPacket[14] = 0
        /\ SubSeq(artDmxPacket, 15, 16) = LittleEndian(Get(artDmxInput).universe % 32768)
        /\ SubSeq(artDmxPacket, 17, 18) = BigEndian(Len(Get(artDmxInput).dmx))
        /\ SubSeq(artDmxPacket, 19, Len(artDmxPacket)) = Get(artDmxInput).dmx

\* the datagram of universe 40000 with a whole universe as payload: the
\* universe is masked to 7232 = 0x1C40 and written 40 1C, the length 02 00
C19_Witness ==
    /\ IsSome(artDmxInput)
    /\ Get(artDmxInput).universe = 40000
    /\ Len(Get(artDmxInput).dmx) = 512
    /\ Get(artDmxInput).dmx[1] = 255
    /\ Len(artDmxPacket) = 530
    /\ SubSeq(artDmxPacket, 9, 18) = << 0, 80, 0, 14, 0, 0, 64, 28, 2, 0 >>
    /\ artDmxPacket[19] = 255

\* C14: at most one flush loop is active at any time and the sends are
\* serialized: a step hands at most one datagram to the socket, and only when
\* no other send is waiting for its callback
C14_OneFlushLoop ==
    /\ Len(flushLoops) <= 1
    /\ isFlushing <=> Len(flushLoops) = 1
    /\ Len(wire) <= 1
    /\ wire # << >> => /\ Len(flushLoops) = 1
                       /\ flushLoops[1].awaiting.key = wire[1].key

\* a push or a firing of the refresh timer has arrived after two pushes while
\* a send was waiting for its callback
C14_Witness ==
    /\ pushes >= 2
    /\ Len(flushLoops) = 1
    /\ isFlushing
    /\ flushRequested
    /\ wire = << >>

\* C15: no flush request is lost. While a request has not been followed by
\* the start of a pass, the flush loop is running; whenever no flush loop is
\* running, flushRequested is false and the last pass, begun after the last
\* request, has sent the whole cache as it is now
C15_NoFlushRequestLost ==
    /\ owedPass => Len(flushLoops) >= 1
    /\ flushLoops = << >> => /\ ~flushRequested
                             /\ ~isFlushing
                             /\ passStart = cachedFrames
                             /\ passSent = cachedFrames

\* a flush has been requested during a pass that has two more frames to send
C15_Witness ==
    /\ owedPass
    /\ flushRequested
    /\ Len(flushLoops) = 1
    /\ Len(flushLoops[1].frames) = 2
    /\ passStart # cachedFrames

\* the datagram that carries the frame of the last push for the key
LatestDatagram(key) ==
    [packet |-> buildArtDmxPacket(key[5], latest[key]), port |-> key[3], host |-> key[1],
     key |-> key]

\* a datagram with the frame of the last push for the key has just been sent
SentLatest(key) ==
    /\ key \in DOMAIN latest
    /\ \E i \in 1..Len(wire) : wire[i] = LatestDatagram(key)

ArtnetKeys ==
    {cacheKey(host, 6454, universe) : host \in {"node-a", "node-b", "node-c"},
                                      universe \in {0, 1}}

\* C16: after the last push that updates a cache entry, if every send
\* callback eventually fires, a datagram with that latest frame is eventually
\* sent and keeps being sent as the refresh timer fires, without a further
\* push; and from some point on every datagram carries the latest frame of
\* its key
C16_LatestFrameKeepsBeingSent ==
    /\ \A key \in ArtnetKeys : [](key \in DOMAIN latest => <>SentLatest(key))
    /\ <>[](\A i \in 1..Len(wire) : wire[i] = LatestDatagram(wire[i].key))

\* after the last push of a behaviour, which replaced the frame of universe 0
\* on node-a, a datagram with the new frame has been sent
C16_Witness ==
    /\ pushes = MaxPushes
    /\ Len(cachedFrames) = 3
    /\ SentLatest(cacheKey("node-a", 6454, 0))
    /\ latest[cacheKey("node-a", 6454, 0)][1] = 1
    /\ latest[cacheKey("node-a", 6454, 1)][1] = 2

\* C17: a send that reports an error leaves every cache entry unchanged and
\* does not abort the pass: the next frame of the pass is sent at once, not
\* the failed one again; at the end of the pass the loop starts the pass that
\* was requested meanwhile or ends with isFlushing false, so that the next
\* request starts a flush of the unchanged cache
C17_SendErrorIsSkipped ==
    [][SendFails =>
         /\ cachedFrames' = cachedFrames
         /\ flushLoops[1].frames # << >> =>
               /\ Len(wire') = 1
               /\ wire'[1].key = Head(flushLoops[1].frames).key
               /\ passSent' = Append(passSent, Head(flushLoops[1].frames))
               /\ passStart' = passStart
               /\ Len(flushLoops') = 1
               /\ flushLoops'[1].frames = Tail(flushLoops[1].frames)
         /\ (flushLoops[1].frames = << >> /\ flushRequested) =>
               /\ passStart' = cachedFrames
               /\ Len(wire') = 1
               /\ wire'[1].key = cachedFrames[1].key
               /\ isFlushing'
         /\ (flushLoops[1].frames = << >> /\ ~flushRequested) =>
               /\ wire' = << >>
               /\ flushLoops' = << >>
               /\ ~isFlushing']_vars

\* the send of the first frame of a pass of three has reported an error and
\* the second frame has been handed to the socket
C17_Witness ==
    /\ sendError
    /\ Len(passStart) = 3
    /\ Len(passSent) = 2
    /\ Len(wire) = 1
    /\ wire[1].key = passStart[2].key
    /\ cachedFrames = passStart

\* the keys of the entries, in their order
Keys(entries) == [i \in 1..Len(entries) |-> entries[i].key]

\* C18: each flush pass sends every frame that was in the cache at the start
\* of the pass exactly once, in the order in which the cache keys were first
\* inserted: what the pass has sent and what it has still to send make up the
\* cache at its start, which is in the order of the first pushes of its keys,
\* also for a key whose frame a later push has replaced
C18_PassSendsCacheInOrder ==
    /\ Keys(cachedFrames) = firstInserted
    /\ \A i \in 1..Len(passStart) : passStart[i].key = firstInserted[i]
    /\ flushLoops = << >> => passSent = passStart
    /\ \A n \in 1..Len(flushLoops) : passSent \o flushLoops[n].frames = passStart

\* a pass has sent three frames after a push replaced the frame of the key
\* inserted first, which is still sent first
C18_Witness ==
    /\ flushLoops = << >>
    /\ Len(passSent) = 3
    /\ passSent[1].key = cacheKey("node-a", 6454, 0)
    /\ passSent[1].value.dmx[1] = 1
    /\ passSent[2].value.dmx[1] = 2

\* the state payload of the commanded light
CommandedPayload ==
    Get(MapGet(Get(runtime).retainedPayloadCache,
               lightStateTopic(Get(commanded).fixtureId))).json

\* C20: for every fixture with an rgb feature and all r, g, b, B in 0..255, a
\* light command with the colour (r, g, b) and the brightness B, once its
\* batch is applied to layer A and mirrored by the next publishLightStates,
\* yields a state payload with that colour, that brightness and the colour
\* mode rgb
C20_LightRoundTrip ==
    (IsSome(commanded) /\ Get(commanded).stage = "mirrored")
    => /\ CommandedPayload.color = Some(Get(commanded).color)
       /\ CommandedPayload.brightness = Get(commanded).brightness
       /\ CommandedPayload.color_mode = "rgb"

\* the round trip of red at brightness 128 on a light with rgb and cct
\* features: layer A holds 128, 0, 0 and the payload gives the command back
C20_ExampleRoundTrip ==
    /\ IsSome(commanded)
    /\ Get(commanded).stage = "mirrored"
    /\ Get(commanded).fixtureId = "f1"
    /\ Get(commanded).color = << 255, 0, 0 >>
    /\ Get(commanded).brightness = 128
    /\ Get(runtime).environmentId = "home"
    /\ layerAValues[frameKey("f1", "rgb")] = << 128, 0, 0 >>
    /\ CommandedPayload.color = Some(<< 255, 0, 0 >>)
    /\ CommandedPayload.brightness = 128
    /\ CommandedPayload.color_mode = "rgb"
    /\ CommandedPayload.state = "ON"

\* the operations of the sequence that belong to the fixture, in their order
OfFixture(operations, fixtureId) ==
    SelectSeq(operations, LAMBDA operation : operation.fixtureId = fixtureId)

\* C21: at most one flush timer is pending at any time, the queue of light
\* operations is non-empty only while a timer is pending, and when the timer
\* fires applyLayerABatch is called exactly once with, for each fixture, only
\* the operations of the last command received for it, after which the queue
\* is empty
C21_LightCommandsDebounced ==
    [][/\ IsSome(runtime') =>
            /\ Get(runtime').scheduledFlushes <= 1
            /\ Get(runtime').pendingLightFlushTimer <=> Get(runtime').scheduledFlushes = 1
            /\ Len(Get(runtime').pendingLightOpsByFixture) > 0
                  => Get(runtime').pendingLightFlushTimer
       /\ FlushLightBatch =>
            /\ Len(controlCalls') = 1
            /\ controlCalls'[1].name = "applyLayerABatch"
            /\ \A i \in 1..Len(controlCalls'[1].arguments) :
                  controlCalls'[1].arguments[i].fixtureId \in DOMAIN queuedRef
            /\ \A fixtureId \in DOMAIN queuedRef :
                  OfFixture(controlCalls'[1].arguments, fixtureId) = queuedRef[fixtureId]
            /\ Get(runtime').pendingLightOpsByFixture = << >>
            /\ ~Get(runtime').pendingLightFlushTimer]_vars

\* the timer has fired after three commands in its window: one batch with
\* the operations of two lights
C21_Witness ==
    /\ lightCommands = 3
    /\ Len(controlCalls) = 1
    /\ controlCalls[1].name = "applyLayerABatch"
    /\ \E i, j \in 1..Len(controlCalls[1].arguments) :
          /\ controlCalls[1].arguments[i].fixtureId = "f1"
          /\ controlCalls[1].arguments[j].fixtureId = "f2"
    /\ Get(runtime).pendingLightOpsByFixture = << >>
    /\ Get(runtime).scheduledFlushes = 0

\* a message the bridge cannot read: no number for the tempo, no on or off
\* for the blackout, neither an object nor on or off for a light
Malformed(topic, rawPayload) ==
    \/ /\ topic = controlTopic("spm/set")
       /\ IsNone(ToNumber(IF IsSome(Field(parsePayload(rawPayload), "value"))
                          THEN Field(parsePayload(rawPayload), "value")
                          ELSE Some(parsePayload(rawPayload))))
    \/ /\ topic = controlTopic("blackout/set")
       /\ parsePayload(rawPayload).type = "string"
       /\ IsNone(parseOnOff(Some(parsePayload(rawPayload))))
    \/ /\ Len(topic) = 3 /\ topic[1] = "light/" /\ topic[3] = "/set"
       /\ parsePayload(rawPayload).type # "object"
       /\ IsNone(parseOnOff(Some(parsePayload(rawPayload))))

\* C22: a command with a malformed payload (no number on control/spm/set, an
\* unknown on/off string on control/blackout/set, neither an object nor on/off
\* on light/<fixtureId>/set) calls nothing on the sequencer, queues no
\* layer-A operation and changes no stored light state
C22_MalformedIgnored ==
    [][\A topic \in CommandTopics, rawPayload \in RawPayloads :
         (Malformed(topic, rawPayload) /\ Message(topic, rawPayload))
         => /\ controlCalls' = << >>
            /\ state' = state
            /\ Get(runtime').pendingLightOpsByFixture = Get(runtime).pendingLightOpsByFixture
            /\ Get(runtime').lightStateByFixtureId = Get(runtime).lightStateByFixtureId]_vars

\* a payload that is no number has made the bridge call setSpm(120), which
\* no payload of this model that is a number does
C22_TempoReset ==
    /\ controlCalls = << ControlCall("setSpm", << 120 >>) >>
    /\ state.spm = 120

\* C22, its part for the blackout: an unknown on/off string on
\* control/blackout/set calls nothing on the sequencer
C22_UnknownBlackoutIgnored ==
    [][\A rawPayload \in RawPayloads :
         (/\ Malformed(controlTopic("blackout/set"), rawPayload)
          /\ Message(controlTopic("blackout/set"), rawPayload))
         => (controlCalls' = << >> /\ state' = state)]_vars

\* the client received the call in the current step
Subscribed(r, topic) ==
    \E i \in 1..Len(r.clientCalls) :
       r.clientCalls[i] = [kind |-> "subscribe", topic |-> topic]

PublishedRetained(r, topic, payload) ==
    \E i \in 1..Len(r.clientCalls) :
       r.clientCalls[i] = [kind |-> "publish", topic |-> topic, payload |-> payload,
                           retain |-> TRUE]

\* C23: on every connect event the client subscribes again to every topic of
\* the subscription set and publishes, retained, the cached payload of every
\* topic of the retained-payload cache, so that the broker then holds the
\* payloads that pushes produced while the client was disconnected
C23_ConnectRestores ==
    [][Connect =>
         /\ \A i \in 1..Len(Get(runtime').subscriptions) :
               Subscribed(Get(runtime'), Get(runtime').subscriptions[i])
         /\ \A i \in 1..Len(Get(runtime').retainedPayloadCache) :
               /\ PublishedRetained(Get(runtime'), Get(runtime').retainedPayloadCache[i].key,
                                    Get(runtime').retainedPayloadCache[i].value)
               /\ lastPublished'[Get(runtime').retainedPayloadCache[i].key]
                    = Get(runtime').retainedPayloadCache[i].value
         /\ Get(runtime').subscriptions = Get(runtime).subscriptions
         /\ Get(runtime').retainedPayloadCache = Get(runtime).retainedPayloadCache]_vars

\* the client has just connected after the pushes before it were dropped:
\* it subscribed to the command topic of the second light and the broker has
\* the state payload of the first and the button of the second program
C23_Witness ==
    /\ IsSome(runtime)
    /\ Get(runtime).connected
    /\ Subscribed(Get(runtime), lightCommandTopic("f2"))
    /\ Subscribed(Get(runtime), controlTopic("spm/set"))
    /\ IsSome(MapGet(Get(runtime).retainedPayloadCache, lightStateTopic("f1")))
    /\ PublishedRetained(Get(runtime), lightStateTopic("f1"),
                         Get(MapGet(Get(runtime).retainedPayloadCache, lightStateTopic("f1"))))
    /\ PublishedRetained(Get(runtime),
                         discoveryTopic("button", sanitizeId(<< "program_", "Fade 2" >>)),
                         Json([name |-> << "Program ", "Fade two" >>,
                               command_topic |-> programPressTopic("Fade 2")]))

\* the topic and the payload of the button of a program
ButtonTopic(program) == discoveryTopic("button", sanitizeId(<< "program_", program.id >>))

ButtonConfig(program) ==
    Json([name |-> << "Program ", program.name >>,
          command_topic |-> programPressTopic(program.id)])

Listed(listed, program) == \E i \in 1..Len(listed) : listed[i].id = program.id

\* C24: with the client connected, after every push the last payload
\* published to the button config topic of a program is its configuration
\* when the program is in the list of the store, and the empty payload when
\* the program was advertised before and is in the list no more
C24_ButtonsFollowStore ==
    [][(MqttPush /\ Online) =>
         \A program \in StoredPrograms :
            /\ Listed(programs, program) =>
                  /\ ButtonTopic(program) \in DOMAIN lastPublished'
                  /\ lastPublished'[ButtonTopic(program)] = ButtonConfig(program)
            /\ (~Listed(programs, program) /\ ButtonTopic(program) \in DOMAIN lastPublished') =>
                  lastPublished'[ButtonTopic(program)] = Text("")]_vars

\* the program "once" was removed and added again, each followed by a push,
\* and the last payload on the topic of its button is the empty one
C24_ReaddedStaysRemoved ==
    /\ Online
    /\ Listed(programs, [id |-> "once"])
    /\ \E i \in 1..Len(Get(runtime).discoveredProgramIds) :
          Get(runtime).discoveredProgramIds[i] = "once"
    /\ ButtonTopic([id |-> "once"]) \in DOMAIN lastPublished
    /\ lastPublished[ButtonTopic([id |-> "once"])] = Text("")

\* C24, its part for removal: with the client connected, a push after the
\* removal of an advertised program publishes the empty payload to the topic
\* of its button
C24_RemovalPublished ==
    [][(MqttPush /\ Online) =>
         \A i \in 1..Len(Get(runtime).discoveredProgramIds) :
            ~Listed(programs, [id |-> Get(runtime).discoveredProgramIds[i]]) =>
               PublishedRetained(Get(runtime'),
                                 ButtonTopic([id |-> Get(runtime).discoveredProgramIds[i]]),
                                 Text(""))]_vars

C26_SpmInRange == state.spm \in 1..500

\* the tempo after a call that was given NaN
C26_SpmNaN == state.spm = NaN /\ calls > 0

\* C26, for the numbers that are not NaN: spm is an integer from 1 to 500
C26_FiniteSpmInRange == state.spm # NaN => state.spm \in 1..500

\* a call was given an spm above the range and the tempo is 500
C26_Clamped == state.spm = 500 /\ calls = 1

\* C27: after every public operation and after every tick, the tick timer
\* runs exactly when isPlaying is true
C27_TickTimerIffPlaying == IsSome(timer) <=> state.isPlaying

\* the program that ends was played at its own tempo and a tick has passed
\* its end: the playhead no longer plays and the tick timer is off
C27_Witness ==
    /\ state.programId = Some("once")
    /\ ~state.isPlaying
    /\ IsNone(timer)
    /\ IsSome(mixTransition)
    /\ Get(mixTransition).toMode = "static"
    /\ Get(mixTransition).startedAtMs > 0
    /\ Len(emitted) = 1
    /\ emitted[1].frame.state.positionMs = 0
    /\ ticked > 0
    /\ state.spm = 240
    /\ ~state.isBlackout

\* C28: after every public operation, when the mix timer runs a cross-fade
\* to the static mode is pending and isPlaying is false
C28_MixTimerFadesToStatic ==
    IsSome(mixTimer) => /\ IsSome(mixTransition)
                        /\ Get(mixTransition).toMode = "static"
                        /\ ~state.isPlaying

\* the mix timer runs for a cross-fade to the sequencer mode while nothing
\* plays, and still runs after the time of a cross-fade has passed
C28_MixTimerNeverEnds ==
    /\ IsSome(mixTimer)
    /\ IsSome(mixTransition)
    /\ Get(mixTransition).toMode = "sequencer"
    /\ ~state.isPlaying
    /\ now - Get(mixTransition).startedAtMs > MODE_SWITCH_FADE_MS

\* C28, without the target mode: when the mix timer runs a cross-fade is
\* pending and isPlaying is false
C28_MixTimerWhileFading ==
    IsSome(mixTimer) => (IsSome(mixTransition) /\ ~state.isPlaying)

\* the sequencer after the step
CommittedSelf ==
    [ state |-> state', timer |-> timer', mixTimer |-> mixTimer',
      frameIntervalMs |-> frameIntervalMs', lastTickAtMs |-> lastTickAtMs',
      listeners |-> listeners', activeProgram |-> activeProgram',
      layerAValues |-> layerAValues', mixTransition |-> mixTransition',
      now |-> now', emitted |-> << >>, begun |-> 0, ticked |-> ticked' ]

\* the whole milliseconds the playhead has left until the end of the last
\* step, for programs whose steps last a whole number of milliseconds
RECURSIVE RemainingMs(_, _)
RemainingMs(s, stepIndex) ==
    IF stepIndex >= stepCount(s) THEN 0
    ELSE (60000 \div s.state.spm) * (Max(1, Get(s.activeProgram).steps[stepIndex + 1].durationMs) \div 500)
         + RemainingMs(s, stepIndex + 1)

\* the tick that fires now carries the position past the end of the last
\* step of a program that does not loop
PassesEnd ==
    /\ IsSome(activeProgram)
    /\ stepCount(self) > 0
    /\ state.isPlaying
    /\ ~state.loop
    /\ IsSome(lastTickAtMs)
    /\ state.positionMs + Max(0, Min(1000, now - Get(lastTickAtMs)))
         >= RemainingMs(self, state.stepIndex)

\* C29: when a tick carries the position past the end of the last step of a
\* program that does not loop, that tick leaves stepIndex at the last step,
\* sets isPlaying to false, stops the tick timer, starts a cross-fade to the
\* static mode from the values that were visible just before in sequencer
\* mode, and emits exactly one frame
C29_EndOfProgram ==
    [][(Tick /\ PassesEnd) =>
         /\ state'.stepIndex = stepCount(self) - 1
         /\ ~state'.isPlaying
         /\ IsNone(timer')
         /\ IsSome(mixTransition')
         /\ Get(mixTransition').toMode = "static"
         /\ Get(mixTransition').startedAtMs = now
         /\ Get(mixTransition').fromValues = captureVisibleValues(self).values
         /\ Len(emitted') = 1]_vars

\* the program of two steps has ended while its last fade was under way: the
\* cross-fade starts from the full values of the last step
C29_EndedInFade ==
    /\ state.programId = Some("fadeout")
    /\ ~state.isPlaying
    /\ state.stepIndex = 1
    /\ IsNone(timer)
    /\ IsSome(mixTransition)
    /\ Get(mixTransition).toMode = "static"
    /\ Get(mixTransition).startedAtMs = now
    /\ Len(emitted) = 1
    /\ ticked > 0

\* C29, without the values the cross-fade starts from: that tick leaves
\* stepIndex at the last step, sets isPlaying to false, stops the tick timer,
\* starts a cross-fade to the static mode and emits exactly one frame
C29_EndOfProgramStops ==
    [][(Tick /\ PassesEnd) =>
         /\ state'.stepIndex = stepCount(self) - 1
         /\ ~state'.isPlaying
         /\ IsNone(timer')
         /\ IsSome(mixTransition')
         /\ Get(mixTransition').toMode = "static"
         /\ Get(mixTransition').startedAtMs = now
         /\ Get(mixTransition').fromValues = buildSequencerValues(CommittedSelf)
         /\ Len(emitted') = 1]_vars

\* C30: while a program that does not loop plays and the ticks keep coming
\* with time elapsed between them, playback stops by itself, isPlaying false
\* at the last step; no tick of a looping playback sets isPlaying to false
C30_PlaybackEnds ==
    /\ (IsSome(activeProgram) /\ state.isPlaying /\ ~state.loop)
          ~> (~state.isPlaying /\ state.stepIndex = stepCount(self) - 1)
    /\ [][(Tick /\ state.loop /\ state.isPlaying) => state'.isPlaying]_vars

\* the one-step program has played to its end and stopped there
C30_Stopped ==
    /\ state.programId = Some("once")
    /\ ~state.loop
    /\ ~state.isPlaying
    /\ state.stepIndex = 0
    /\ state.positionMs = 0
    /\ IsNone(timer)
    /\ ticked >= 250
    /\ Len(emitted) = 1

\* C30, the looping part under the ticks of a looping playback: the program
\* has wrapped from its last step to its first and still plays
C30_Wrapped ==
    /\ state.programId = Some("fade")
    /\ state.loop
    /\ state.isPlaying
    /\ state.stepIndex = 0
    /\ ticked >= 1000

\* the sequencer as the while loop of the tick that fires now finds it
BeforeCatchUp ==
    [self EXCEPT !.state.positionMs = @ + Max(0, Min(1000, now - Get(lastTickAtMs)))]

\* a tick has added the time elapsed since the tick before it to the position
\* of a playback (ticked, the sum of these times, grows in no other step)
TickAdded == state.isPlaying /\ IsSome(lastTickAtMs) /\ ticked' > ticked

\* C31: the catch-up loop of a tick ends, after no more passes than steps of
\* the shortest length ((60000 / 500) * 0.5 ms) fit into the position and the
\* elapsed time of at most 1000 ms, and if the sequencer still plays after
\* the tick then 0 <= positionMs < (60000 / spm) * max(1, durationMs) / 500
\* for the current step
C31_CatchUpEnds ==
    [][TickAdded =>
         /\ catchUpPasses(BeforeCatchUp) * ((60000 \div 500) \div 2)
              <= state.positionMs + Max(0, Min(1000, now - Get(lastTickAtMs)))
         /\ state'.isPlaying =>
              /\ state'.positionMs >= 0
              /\ DoubleLess(positionMs(CommittedSelf),
                            targetStepDurationMs(CommittedSelf,
                               Get(activeProgram').steps[state'.stepIndex + 1]))]_vars

\* the tempo went from 1 to 500 while the playhead was 1000 ms into a step:
\* two rounds of 60 + 120 + 240 ms and one more step later the position is
\* back below the length of a step at that tempo
C31_CaughtUp ==
    /\ state.programId = Some("timed")
    /\ state.isPlaying
    /\ state.spm = 500
    /\ ticked = 1000
    /\ now = Get(lastTickAtMs)
    /\ state.stepIndex = 1
    /\ state.positionMs = 100

\* C32: for an active program with n >= 1 steps, nextStep sets stepIndex to
\* (stepIndex + 1) mod n when loop is true and to min(stepIndex + 1, n - 1)
\* when it is false, previousStep sets it to (stepIndex - 1 + n) mod n when
\* loop is true and to max(stepIndex - 1, 0) when it is false, and both set
\* positionMs to 0 and leave isPlaying as it was
C32_StepNavigation ==
    [][(IsSome(activeProgram) /\ stepCount(self) >= 1) =>
         /\ StepsNextStep =>
              /\ state'.stepIndex =
                   IF state.loop THEN (state.stepIndex + 1) % stepCount(self)
                   ELSE Min(state.stepIndex + 1, stepCount(self) - 1)
              /\ state'.positionMs = 0
              /\ state'.positionMsLow = <<0, 0>>
              /\ state'.isPlaying = state.isPlaying
         /\ StepsPreviousStep =>
              /\ state'.stepIndex =
                   IF state.loop
                   THEN (state.stepIndex - 1 + stepCount(self)) % stepCount(self)
                   ELSE Max(state.stepIndex - 1, 0)
              /\ state'.positionMs = 0
              /\ state'.positionMsLow = <<0, 0>>
              /\ state'.isPlaying = state.isPlaying]_vars

\* the program that does not loop, grown to three steps, stands at the start
\* of its last step while it plays
C32_AtLastStep ==
    /\ state.programId = Some("once")
    /\ stepCount(self) = 3
    /\ ~state.loop
    /\ state.isPlaying
    /\ state.stepIndex = 2
    /\ state.positionMs = 0
    /\ Len(emitted) = 1

\* C33: play and resume, called while the sequencer plays or has no program,
\* change nothing of the sequencer (playhead, cross-fade, timers) and emit
\* no frame; resume called while a program is paused sets isPlaying and
\* leaves stepIndex and positionMs as they were
C33_PlayResume ==
    [][/\ ((TimersPlay \/ TimersResume) /\ (state.isPlaying \/ IsNone(activeProgram))) =>
            /\ UNCHANGED << state, timer, mixTimer, frameIntervalMs, lastTickAtMs,
                            activeProgram, layerAValues, mixTransition >>
            /\ emitted' = << >>
       /\ (TimersResume /\ ~state.isPlaying /\ IsSome(activeProgram)) =>
            /\ state'.isPlaying
            /\ state'.stepIndex = state.stepIndex
            /\ state'.positionMs = state.positionMs
            /\ state'.positionMsLow = state.positionMsLow]_vars

\* a playback at the slowest tempo, paused 250 ms into its step, has just been
\* resumed there: the cross-fade to the sequencer mode starts now
C33_Resumed ==
    /\ state.programId = Some("once")
    /\ state.isPlaying
    /\ state.spm = 1
    /\ state.positionMs = Dt
    /\ IsSome(timer)
    /\ lastTickAtMs = Some(now)
    /\ IsSome(mixTransition)
    /\ Get(mixTransition).toMode = "sequencer"
    /\ Get(mixTransition).startedAtMs = now
    /\ Len(emitted) = 1

\* C34: setStep(i) with i at or past the number of steps appends steps
\* without frames to the active program until index i exists, each with the
\* durationMs and fadeMs of the step before it, keeps the steps that were
\* there, and sets stepIndex to i; no setStep makes a program shorter
C34_SetStepAppends ==
    [][\A i \in StepInputs :
          (Uncounted(setStep(self, i)) /\ IsSome(activeProgram)) =>
              /\ Len(steps') >= Len(steps)
              /\ i < Len(steps) => steps' = steps
              /\ i >= Len(steps) =>
                    /\ Len(steps') = i + 1
                    /\ SubSeq(steps', 1, Len(steps)) = steps
                    /\ state'.stepIndex = i
                    /\ \A n \in (Len(steps) + 1)..(i + 1) :
                          /\ steps'[n].frames = << >>
                          /\ n > 1 => /\ steps'[n].durationMs = steps'[n - 1].durationMs
                                      /\ steps'[n].fadeMs = steps'[n - 1].fadeMs]_vars

\* setStep(2) on the program of one step without fade: two steps were
\* appended with its durationMs and its fadeMs of 0
C34_Appended ==
    /\ state.programId = Some("once")
    /\ Len(steps) = 3
    /\ steps[1] = ProgramOnce.steps[1]
    /\ \A n \in 2..3 : /\ steps[n].durationMs = 500
                        /\ steps[n].fadeMs = 0
                        /\ steps[n].frames = << >>
    /\ state.stepIndex = 2
    /\ state.positionMs = 0
    /\ ~state.isPlaying
    /\ Len(emitted) = 1

\* the visible values of the frame are those of layer B when the frame shows
\* a playback of a program with steps, and those of layer A otherwise
ShowsItsMode(frame, programSteps) ==
    frame.values = IF frame.state.isPlaying /\ Len(programSteps) >= 1
                   THEN frame.layerBValues ELSE frame.layerAValues

\* C35: in every frame built while no cross-fade is pending, the visible
\* values equal layerBValues when isPlaying is true and the active program
\* has at least one step, and layerAValues otherwise: this holds for the
\* frame getFrame builds in any state without a pending cross-fade, and for
\* the frames emitted by a call or callback that neither finds nor leaves one
C35_ValuesFollowMode ==
    /\ [](IsNone(mixTransition) => ShowsItsMode(buildFrame(self).frame, steps))
    /\ [][(now' = now /\ IsNone(mixTransition) /\ IsNone(mixTransition')) =>
            \A n \in 1..Len(emitted') : ShowsItsMode(emitted'[n].frame, steps')]_vars

\* the cross-fade of play is over and a later tick has emitted a frame of the
\* playback: its values are those of layer B
C35_PlaybackFrame ==
    /\ state.isPlaying
    /\ IsNone(mixTransition)
    /\ Len(steps) >= 1
    /\ ticked > MODE_SWITCH_FADE_MS
    /\ Len(emitted) = 1
    /\ emitted[1].frame.values = emitted[1].frame.layerBValues
    /\ emitted[1].frame.values # emitted[1].frame.layerAValues

\* one of the four layer-A methods is called and changes layer A
LayerAEditStep ==
    /\ layerAValues' # layerAValues
    /\ \/ \E w \in LayerAWrites : SetLayerAValueCall(w)
       \/ \E key \in LayerAKeys : ClearLayerAFeatureCall(key)
       \/ \E key \in LayerAKeys : ClearLayerAFixtureCall(key[1])
       \/ \E operations \in Batches : ApplyLayerABatchCall(operations)

\* the edit emits one frame, with layer A as the edit left it and the visible
\* values a frame built just before the edit would have had, and leaves the
\* playhead and both timers alone
EditLeavesPlaybackAlone ==
    /\ Len(emitted') = 1
    /\ emitted'[1].frame.layerAValues = layerAValues'
    /\ emitted'[1].frame.values = buildFrame(self).frame.values
    /\ UNCHANGED << state, timer, mixTimer, lastTickAtMs >>

\* C36 as claimed: a layer-A edit made while the visible mode is sequencer
\* updates layer A and emits a frame, neither starts nor modifies a
\* cross-fade, leaves the playhead and both timers unchanged, and the visible
\* values of that frame are unaffected by the edit
C36_EditInSequencerMode ==
    [][(LayerAEditStep /\ getVisibleMixMode(self) = "sequencer") =>
         /\ EditLeavesPlaybackAlone
         /\ UNCHANGED mixTransition]_vars

\* C36: a layer-A edit made while the visible mode is sequencer updates layer
\* A and emits a frame, starts no cross-fade and leaves a pending one as it
\* is unless its MODE_SWITCH_FADE_MS have passed, in which case the frame it
\* emits ends it; it leaves the playhead and both timers unchanged, and the
\* visible values of that frame are unaffected by the edit
C36_EditKeepsRunningFade ==
    [][(LayerAEditStep /\ getVisibleMixMode(self) = "sequencer") =>
         /\ EditLeavesPlaybackAlone
         /\ \/ UNCHANGED mixTransition
            \/ /\ IsSome(mixTransition)
               /\ Get(mixTransition).toMode = "sequencer"
               /\ now - Get(mixTransition).startedAtMs >= MODE_SWITCH_FADE_MS
               /\ IsNone(mixTransition')]_vars

\* layer A was empty when play began its cross-fade and has been edited
\* during the playback: the cross-fade is the one play began
C36_EditedWhilePlaying ==
    /\ state.isPlaying
    /\ Len(steps) >= 1
    /\ layerAValues # << >>
    /\ IsSome(mixTransition)
    /\ Get(mixTransition).toMode = "sequencer"
    /\ Get(mixTransition).fromValues = << >>
    /\ Get(mixTransition).startedAtMs < now
    /\ Len(emitted) = 1
    /\ emitted[1].frame.layerAValues = layerAValues

\* C37: getState() and getFrame() emit no frame and leave the whole sequencer
\* state unchanged, the pending cross-fade and the mix timer included
C37_ReadOnly ==
    [][(GetState \/ GetFrame) =>
         /\ emitted' = << >>
         /\ UNCHANGED << state, timer, mixTimer, frameIntervalMs, lastTickAtMs, listeners,
                         activeProgram, layerAValues, mixTransition >>]_vars

\* C38: in every reachable state with an active program of at least one
\* step, 0 <= stepIndex <= stepCount - 1 and positionMs >= 0, whatever
\* sequence of setProgram (with or without preservePlayhead), setStep,
\* nextStep, previousStep, applyStateSnapshot and ticks led to it
C38_PlayheadInRange ==
    (IsSome(activeProgram) /\ Len(steps) >= 1) =>
        /\ 0 <= state.stepIndex
        /\ state.stepIndex <= Len(steps) - 1
        /\ state.positionMs >= 0
        /\ state.positionMsLow[1] >= 0
        /\ state.positionMsLow[2] >= 0

\* the one-step program has taken the place of another with the playhead
\* preserved: the position is one that only a snapshot sets, the tempo one
\* that only setProgram sets
C38_SwitchedToShorter ==
    /\ state.programId = Some("once")
    /\ Len(steps) = 1
    /\ state.spm = ProgramOnce.spm
    /\ state.stepIndex = 0
    /\ state.positionMs = 250

\* the push of the frame the sequencer s would emit, by the runtime r
PushOf(r, s) ==
    mqttPush(Some(r), LightFixtureDefs, programs,
             [environment |-> CHOOSE environment \in LightEnvironments :
                                environment.id = r.environmentId,
              frame |-> [state |-> s.state, layerAValues |-> s.layerAValues]])

\* the runtime after the flush of the batch and the push of the frame that
\* carries the layer A the batch has made
FlushedAndMirrored(r) ==
    Bind(flushLightBatch(r, self), LAMBDA flushed : PushOf(flushed.runtime, flushed.sequencer))

\* the light state last published for the fixture
PublishedLightState(r, fixtureId) ==
    MapGet(r.retainedPayloadCache, lightStateTopic(fixtureId))

\* C39: for every light command that queues operations, the light state
\* published for its fixture after the batch has been applied is the same
\* whether or not a frame is pushed between the command and the flush
C39_PushBeforeFlush ==
    IsSome(runtime) =>
      \A fixtureId \in LightCommandFixtures, payload \in LightCommandPayloads :
        Bind(handleLightCommand(Heard(Get(runtime)), fixtureId, payload), LAMBDA received :
          Len(received.pendingLightOpsByFixture) > 0 =>
            PublishedLightState(FlushedAndMirrored(received), fixtureId)
              = PublishedLightState(FlushedAndMirrored(PushOf(received, self)), fixtureId))

\* the broker holds the payload on the topic
Holds(topic, payload) == topic \in DOMAIN lastPublished /\ lastPublished[topic] = payload

Advertised(r, program) ==
    \E i \in 1..Len(r.discoveredProgramIds) : r.discoveredProgramIds[i] = program.id

\* the broker holds, for every topic of the retained-payload cache that is
\* not the button of a program the last push removed, the cached payload
CachedDelivered(r) ==
    \A i \in 1..Len(r.retainedPayloadCache) :
       (\A program \in StoredPrograms :
           r.retainedPayloadCache[i].key = ButtonTopic(program) => Advertised(r, program))
       => Holds(r.retainedPayloadCache[i].key, r.retainedPayloadCache[i].value)

\* the broker holds the empty payload for the button of every program that
\* was advertised and that the last push found in the store no more
RemovalsDelivered(r) ==
    \A program \in StoredPrograms :
       (IsSome(MapGet(r.retainedPayloadCache, ButtonTopic(program))) /\ ~Advertised(r, program))
       => Holds(ButtonTopic(program), Text(""))

\* the broker holds the control states of the pushed playhead, which no
\* action of the specification of the bridge and its connection changes
ControlStatesDelivered ==
    /\ Holds(controlTopic("blackout/state"), Text(IF state.isBlackout THEN "ON" ELSE "OFF"))
    /\ Holds(controlTopic("spm/state"), Decimal(clampSpm(Some(Frac(state.spm, 1)))))

\* C40: whenever the client is connected after a push, the broker holds on
\* every retained topic of the bridge (discovery configurations and the
\* removals of deleted programs, availability, control/blackout/state,
\* control/spm/state, light states) the payload the bridge generated last
\* for it, also when that was while the client was disconnected and no
\* frame has been pushed since
C40_DisconnectTransparent ==
    Online => /\ CachedDelivered(Get(runtime))
              /\ RemovalsDelivered(Get(runtime))
              /\ Holds(availabilityTopic, Text("online"))
              /\ ControlStatesDelivered
====
